---- MODULE Spec2Model ----
(***************************************************************************)
(* KanbanFlow backend: the position-maintenance engine.                    *)
(*                                                                         *)
(* Two collections of the document store are modelled: List documents      *)
(* (ordered inside a board) and Card documents (ordered inside a list).    *)
(* Model methods (Card.moveToList, List.moveToPosition, the deleteOne      *)
(* hooks) are operators over a collection; request handlers (createCard,   *)
(* moveCard, ...) are operators that return the HTTP status and the        *)
(* collections after the handler has run.  Spec and SpecLists run the      *)
(* handlers one at a time from an empty database; SpecOps applies one      *)
(* request to a store and keeps the store it was applied to; SpecConc runs *)
(* two card requests whose store reads and writes interleave; SpecFail     *)
(* lets a store write of a card move throw; SpecBoards applies one card    *)
(* request to a store of two boards whose lists may carry a cardLimit;     *)
(* SpecMethods calls the move methods of the models directly; SpecRetry    *)
(* re-sends a card move that was answered 500; SpecConcFair is SpecConc    *)
(* with every started request eventually taking its next step; SpecAuth   *)
(* sends one card request of a user who belongs to one of two boards.      *)
(* The events the handlers emit to a board's Socket.IO room are collected  *)
(* in the sequence sink.                                                   *)
(*                                                                         *)
(* Around the engine: SpecCascade interleaves the deletion of a board or   *)
(* of a list with a card creation; SpecDeleteFail lets the compaction      *)
(* after a removal throw; SpecHttp puts the auth middleware in front of    *)
(* the card handlers; SpecLogin runs logins against a clock (lock-out      *)
(* after failed attempts, token expiry); SpecSockets runs the Socket.IO    *)
(* handlers of two sockets together with the membership requests.          *)
(***************************************************************************)
EXTENDS Integers, FiniteSets, Sequences, TLC

\* ---------------------------------------------------------------- bounds
\* Spec: cards and lists ever created, largest position sent or stored
MaxCards == 3
MaxLists == 2
MaxPos == 3
\* SpecLists: lists ever created
MaxBoardLists == 3
\* SpecOps: items (cards, lists) of the collection an operation is applied to
MaxItems == 4

BoardIds == {1}
Positions == 0..MaxPos

\* `newPosition = null` of Card.moveToList
NullPosition == -1
\* `cardLimit: null` of the List schema
NoLimit == 0

\* outcome of `Board.findById(..)` followed by `board.isMember(userId)`
AccessOutcomes == {"member", "notMember", "noBoard"}

VARIABLES
    cards,      \* Card collection: [set of card ids -> card document]
    lists,      \* List collection: [set of list ids -> list document]
    nextCard,   \* next fresh card _id
    nextList,   \* next fresh list _id
    last,       \* the response sent last: handler and HTTP status
    call,       \* history: the request whose handler ran last (SpecOps, SpecFail)
    cards0,     \* history: the Card collection before the request(s) started
    lists0,     \* history: the List collection before the request started
    reqs,       \* SpecConc: the requests in flight, one per connection
    sink,       \* the notifications delivered to the boards' socket rooms, in
                \* order (kept where the history of a request is kept)
    boards,     \* Board collection: [set of board ids -> board document]
    users,      \* User collection: [set of user ids -> user document]
    now,        \* the clock Date.now() reads
    sockets,    \* the connected sockets: [set of socket ids -> socket]
    relay,      \* what the socket handler that ran last emitted
    exchange    \* history: the login or protected request answered last

\* the state outside the Card and List collections
collaborators == <<boards, users, now, sockets, relay, exchange>>

vars == <<cards, lists, nextCard, nextList, last, call, cards0, lists0, reqs, sink,
          boards, users, now, sockets, relay, exchange>>

\* ------------------------------------------------------- Card collection
\* a new Card document (archived defaults to false)
NewCard(listId, boardId, position) ==
    [listId |-> listId, boardId |-> boardId, position |-> position,
     archived |-> FALSE]

\* Card.countDocuments({ listId })
countCards(cs, listId) ==
    Cardinality({c \in DOMAIN cs : cs[c].listId = listId})

\* Card.countDocuments({ listId, archived: false })
countActiveCards(cs, listId) ==
    Cardinality({c \in DOMAIN cs : cs[c].listId = listId /\ ~cs[c].archived})

\* Card.updateMany(filter, { $inc: { position: d } }) on the documents in S
incCards(cs, S, d) ==
    [c \in DOMAIN cs |->
        IF c \in S THEN [cs[c] EXCEPT !.position = @ + d] ELSE cs[c]]

\* card.save() inside moveToList: writes listId and position of document id
saveCard(cs, id, listId, position) ==
    [cs EXCEPT ![id] = [@ EXCEPT !.listId = listId, !.position = position]]

\* mutant: the old list is compacted before the position left ($lt for $gt)
shiftOldList_Lt(cs, oldListId, oldPosition) ==
    incCards(cs, {c \in DOMAIN cs : /\ cs[c].listId = oldListId
                                     /\ cs[c].position < oldPosition}, -1)

\* moveToList, different list, first updateMany: close the gap in the old list
shiftOldList(cs, oldListId, oldPosition) ==
    incCards(cs, {c \in DOMAIN cs : /\ cs[c].listId = oldListId
                                     /\ cs[c].position > oldPosition}, -1)

\* mutant: no position means the head of the list
resolvePosition_Head(cs, newListId, newPosition) ==
    IF newPosition = NullPosition THEN 0 ELSE newPosition

\* moveToList, different list: newPosition === null means the end of the list
resolvePosition(cs, newListId, newPosition) ==
    IF newPosition = NullPosition THEN countCards(cs, newListId) ELSE newPosition

\* mutant: the slot is opened after newPosition ($gt for $gte)
shiftNewList_Gt(cs, newListId, newPosition) ==
    incCards(cs, {c \in DOMAIN cs : /\ cs[c].listId = newListId
                                     /\ cs[c].position > newPosition}, 1)

\* moveToList, different list, second updateMany: open a slot in the new list
shiftNewList(cs, newListId, newPosition) ==
    incCards(cs, {c \in DOMAIN cs : /\ cs[c].listId = newListId
                                     /\ cs[c].position >= newPosition}, 1)

\* mutant: moving down leaves the sibling at newPosition in place ($lt for $lte)
shiftWithinList_Lt(cs, id, oldListId, oldPosition, newPosition) ==
    IF newPosition > oldPosition
    THEN incCards(cs, {c \in DOMAIN cs : /\ cs[c].listId = oldListId
                                          /\ cs[c].position > oldPosition
                                          /\ cs[c].position < newPosition
                                          /\ c # id}, -1)
    ELSE incCards(cs, {c \in DOMAIN cs : /\ cs[c].listId = oldListId
                                          /\ cs[c].position >= newPosition
                                          /\ cs[c].position < oldPosition
                                          /\ c # id}, 1)

\* moveToList, same list: the updateMany of the branch taken
shiftWithinList(cs, id, oldListId, oldPosition, newPosition) ==
    IF newPosition > oldPosition
    THEN incCards(cs, {c \in DOMAIN cs : /\ cs[c].listId = oldListId
                                          /\ cs[c].position > oldPosition
                                          /\ cs[c].position <= newPosition
                                          /\ c # id}, -1)
    ELSE incCards(cs, {c \in DOMAIN cs : /\ cs[c].listId = oldListId
                                          /\ cs[c].position >= newPosition
                                          /\ cs[c].position < oldPosition
                                          /\ c # id}, 1)

\* moveToList returns without a write
moveIsNoop(oldListId, oldPosition, newListId, newPosition) ==
    /\ oldListId = newListId
    /\ newPosition = NullPosition \/ newPosition = oldPosition

\* mutant: a move inside the list neither returns early nor closes the old
\* slot; it opens the new slot as for a card coming from another list
moveToList_NoReturn(cs, id, newListId, newPosition) ==
    LET oldListId == cs[id].listId
        oldPosition == cs[id].position
        cs1 == IF oldListId # newListId
               THEN shiftOldList(cs, oldListId, oldPosition) ELSE cs
        pos == resolvePosition(cs1, newListId, newPosition)
        cs2 == shiftNewList(cs1, newListId, pos)
    IN  saveCard(cs2, id, newListId, pos)

\* cardSchema.methods.moveToList, run to completion on collection cs
moveToList(cs, id, newListId, newPosition) ==
    LET oldListId == cs[id].listId
        oldPosition == cs[id].position
    IN  IF moveIsNoop(oldListId, oldPosition, newListId, newPosition) THEN cs
        ELSE IF oldListId # newListId
        THEN LET cs1 == shiftOldList(cs, oldListId, oldPosition)
                 pos == resolvePosition(cs1, newListId, newPosition)
                 cs2 == shiftNewList(cs1, newListId, pos)
             IN  saveCard(cs2, id, newListId, pos)
        ELSE saveCard(shiftWithinList(cs, id, oldListId, oldPosition, newPosition),
                      id, newListId, newPosition)

\* card.deleteOne(): the document is removed
removeCard(cs, id) == [c \in DOMAIN cs \ {id} |-> cs[c]]

\* mutant: the compaction shifts the cards before the deleted one ($lt for $gt)
compactCards_Lt(cs, doc) ==
    incCards(cs, {c \in DOMAIN cs : /\ cs[c].listId = doc.listId
                                     /\ cs[c].position < doc.position
                                     /\ ~cs[c].archived}, -1)

\* mutant: the compaction also shifts a card at the deleted position ($gte for $gt)
compactCards_Gte(cs, doc) ==
    incCards(cs, {c \in DOMAIN cs : /\ cs[c].listId = doc.listId
                                     /\ cs[c].position >= doc.position
                                     /\ ~cs[c].archived}, -1)

\* cardSchema.post('deleteOne'): compaction of the list of the deleted doc
compactCards(cs, doc) ==
    incCards(cs, {c \in DOMAIN cs : /\ cs[c].listId = doc.listId
                                     /\ cs[c].position > doc.position
                                     /\ ~cs[c].archived}, -1)

\* ------------------------------------------------------- List collection
NewList(boardId, position) ==
    [boardId |-> boardId, position |-> position, archived |-> FALSE,
     cardLimit |-> NoLimit]

\* List.countDocuments({ boardId })
countLists(ls, boardId) ==
    Cardinality({l \in DOMAIN ls : ls[l].boardId = boardId})

\* List.updateMany(filter, { $inc: { position: d } }) on the documents in S
incLists(ls, S, d) ==
    [l \in DOMAIN ls |->
        IF l \in S THEN [ls[l] EXCEPT !.position = @ + d] ELSE ls[l]]

\* listSchema.methods.moveToPosition (newPosition >= 0 is checked by the caller's
\* validation and again by the method, which throws on a negative one)
moveToPosition(ls, id, newPosition) ==
    LET oldPosition == ls[id].position
        boardId == ls[id].boardId
        shifted ==
            IF newPosition > oldPosition
            THEN incLists(ls, {l \in DOMAIN ls : /\ ls[l].boardId = boardId
                                                  /\ ls[l].position > oldPosition
                                                  /\ ls[l].position <= newPosition
                                                  /\ l # id}, -1)
            ELSE incLists(ls, {l \in DOMAIN ls : /\ ls[l].boardId = boardId
                                                  /\ ls[l].position >= newPosition
                                                  /\ ls[l].position < oldPosition
                                                  /\ l # id}, 1)
    IN  IF oldPosition = newPosition THEN ls
        ELSE [shifted EXCEPT ![id] = [@ EXCEPT !.position = newPosition]]

\* mutant: the limit is exceeded only above it (> for >=)
isCardLimitExceeded_Gt(cs, ls, listId) ==
    IF ls[listId].cardLimit = NoLimit THEN FALSE
    ELSE countActiveCards(cs, listId) > ls[listId].cardLimit

\* listSchema.methods.isCardLimitExceeded
isCardLimitExceeded(cs, ls, listId) ==
    IF ls[listId].cardLimit = NoLimit THEN FALSE
    ELSE countActiveCards(cs, listId) >= ls[listId].cardLimit

\* listSchema.pre('deleteOne'): Card.deleteMany({ listId })
cascadeCards(cs, listId) ==
    [c \in {d \in DOMAIN cs : cs[d].listId # listId} |-> cs[c]]

\* listSchema.post('deleteOne'): compaction of the board of the deleted list
compactLists(ls, doc) ==
    incLists(ls, {l \in DOMAIN ls : /\ ls[l].boardId = doc.boardId
                                     /\ ls[l].position > doc.position}, -1)

\* list.deleteOne() with both hooks
removeList(ls, id) ==
    compactLists([l \in DOMAIN ls \ {id} |-> ls[l]], ls[id])

\* ------------------------------------------------------ request handlers
\* Each handler is given the collections and the request (its body has passed
\* the joi schema of its route, so a position is a number >= 0) and returns the
\* HTTP status with the collections it leaves behind.
Reply(status, cs, ls) == [status |-> status, cards |-> cs, lists |-> ls]

\* controllers/cardController.js createCard
createCard(cs, ls, id, listId, boardId, access) ==
    IF access # "member" THEN Reply(403, cs, ls)
    ELSE LET cardCount == countCards(cs, listId)
         IN  Reply(201, [c \in DOMAIN cs \cup {id} |->
                            IF c = id THEN NewCard(listId, boardId, cardCount)
                            ELSE cs[c]], ls)

\* mutant: the target list's board is not compared with the card's board
moveCard_NoBoardCheck(cs, ls, id, listId, position, access) ==
    IF id \notin DOMAIN cs THEN Reply(404, cs, ls)
    ELSE IF access # "member" THEN Reply(403, cs, ls)
    ELSE IF listId # cs[id].listId /\ listId \notin DOMAIN ls THEN Reply(404, cs, ls)
    ELSE IF listId # cs[id].listId /\ isCardLimitExceeded(cs, ls, listId)
        THEN Reply(400, cs, ls)
    ELSE Reply(200, moveToList(cs, id, listId, position), ls)

\* controllers/cardController.js moveCard
moveCard(cs, ls, id, listId, position, access) ==
    IF id \notin DOMAIN cs THEN Reply(404, cs, ls)
    ELSE IF access # "member" THEN Reply(403, cs, ls)
    ELSE IF listId # cs[id].listId /\ listId \notin DOMAIN ls THEN Reply(404, cs, ls)
    ELSE IF listId # cs[id].listId /\ ls[listId].boardId # cs[id].boardId
        THEN Reply(400, cs, ls)
    ELSE IF listId # cs[id].listId /\ isCardLimitExceeded(cs, ls, listId)
        THEN Reply(400, cs, ls)
    ELSE Reply(200, moveToList(cs, id, listId, position), ls)

\* controllers/cardController.js deleteCard
deleteCard(cs, ls, id, access) ==
    IF id \notin DOMAIN cs THEN Reply(404, cs, ls)
    ELSE IF access # "member" THEN Reply(403, cs, ls)
    ELSE Reply(200, compactCards(removeCard(cs, id), cs[id]), ls)

\* listController createList
createList(cs, ls, id, boardId, access) ==
    IF access = "noBoard" THEN Reply(404, cs, ls)
    ELSE IF access # "member" THEN Reply(403, cs, ls)
    ELSE LET listCount == countLists(ls, boardId)
         IN  Reply(201, cs, [l \in DOMAIN ls \cup {id} |->
                                IF l = id THEN NewList(boardId, listCount)
                                ELSE ls[l]])

\* listController reorderList
reorderList(cs, ls, id, position, access) ==
    IF id \notin DOMAIN ls THEN Reply(404, cs, ls)
    ELSE IF access # "member" THEN Reply(403, cs, ls)
    ELSE Reply(200, cs, moveToPosition(ls, id, position))

\* listController deleteList
deleteList(cs, ls, id, access) ==
    IF id \notin DOMAIN ls THEN Reply(404, cs, ls)
    ELSE IF access # "member" THEN Reply(403, cs, ls)
    ELSE IF countActiveCards(cs, id) > 0 THEN Reply(400, cs, ls)
    ELSE Reply(200, cascadeCards(cs, id), removeList(ls, id))

\* listController archiveList
archiveList(cs, ls, id, archived, access) ==
    IF id \notin DOMAIN ls THEN Reply(404, cs, ls)
    ELSE IF access # "member" THEN Reply(403, cs, ls)
    ELSE Reply(200, cs, [ls EXCEPT ![id] = [@ EXCEPT !.archived = archived]])

\* ------------------------------------------------------- notifications
\* a key the payload of an event does not carry
Absent == -2

\* an event delivered to the socket room `board:${room}`; the payload keys
\* of the events are brought to one shape
Notification(event, room, itemId, oldParentId, oldPosition, newParentId, newPosition) ==
    [event |-> event, room |-> room, itemId |-> itemId,
     oldParentId |-> oldParentId, oldPosition |-> oldPosition,
     newParentId |-> newParentId, newPosition |-> newPosition]

\* socketHandlers emitToBoardMembers(req, boardId, event, data): it emits when
\* its first argument has an io property.  The request has (server.js sets
\* req.io); the Socket.IO server, which some handlers pass as req.io, has not.
emitToBoardMembers(arg, n) == IF arg = "req" THEN <<n>> ELSE <<>>

\* 'card-created' { card: newCard, listId }
cardCreated(boardId, id, listId, position) ==
    emitToBoardMembers("req",
        Notification("card-created", boardId, id, Absent, Absent, listId, position))

\* 'card-moved' { cardId, oldListId, newListId: listId, newPosition: card.position }
cardMoved(boardId, id, oldListId, listId, position) ==
    emitToBoardMembers("req",
        Notification("card-moved", boardId, id, oldListId, Absent, listId, position))

\* 'card-deleted' { cardId, deletedBy }
cardDeleted(boardId, id) ==
    emitToBoardMembers("req",
        Notification("card-deleted", boardId, id, Absent, Absent, Absent, Absent))

\* 'list-created' { list, createdBy }
listCreated(boardId, id, position) ==
    emitToBoardMembers("req",
        Notification("list-created", boardId, id, Absent, Absent, boardId, position))

\* 'list-reordered' { listId, newPosition: position, reorderedBy }, with req.io
listReordered(boardId, id, position) ==
    emitToBoardMembers("io",
        Notification("list-reordered", boardId, id, Absent, Absent, boardId, position))

\* 'list-deleted' { listId, deletedBy }, with req.io
listDeleted(boardId, id) ==
    emitToBoardMembers("io",
        Notification("list-deleted", boardId, id, Absent, Absent, Absent, Absent))

\* 'list-archived' { listId, archived, archivedBy }, with req.io
listArchived(boardId, id) ==
    emitToBoardMembers("io",
        Notification("list-archived", boardId, id, Absent, Absent, Absent, Absent))

\* what each handler emits between its last store call and its response
createCardEvents(cs, ls, id, listId, boardId, access) ==
    IF createCard(cs, ls, id, listId, boardId, access).status # 201 THEN <<>>
    ELSE cardCreated(boardId, id, listId, countCards(cs, listId))

moveCardEvents(cs, ls, id, listId, position, access) ==
    IF moveCard(cs, ls, id, listId, position, access).status # 200 THEN <<>>
    ELSE cardMoved(cs[id].boardId, id, cs[id].listId, listId, position)

deleteCardEvents(cs, ls, id, access) ==
    IF deleteCard(cs, ls, id, access).status # 200 THEN <<>>
    ELSE cardDeleted(cs[id].boardId, id)

createListEvents(cs, ls, id, boardId, access) ==
    IF createList(cs, ls, id, boardId, access).status # 201 THEN <<>>
    ELSE listCreated(boardId, id, countLists(ls, boardId))

reorderListEvents(cs, ls, id, position, access) ==
    IF reorderList(cs, ls, id, position, access).status # 200 THEN <<>>
    ELSE listReordered(ls[id].boardId, id, position)

deleteListEvents(cs, ls, id, access) ==
    IF deleteList(cs, ls, id, access).status # 200 THEN <<>>
    ELSE listDeleted(ls[id].boardId, id)

archiveListEvents(cs, ls, id, archived, access) ==
    IF archiveList(cs, ls, id, archived, access).status # 200 THEN <<>>
    ELSE listArchived(ls[id].boardId, id)

\* -------------------------------------------------- boards and accounts
UserIds == {1, 2}

\* `lockUntil: null` of the User schema, `socket.currentBoard` unset
NoDate == -1
NoBoard == 0

\* models/Board.js: ownerId and members
NewBoard(ownerId, members) == [ownerId |-> ownerId, members |-> members]

\* bcrypt.hash, bcrypt.compare: a hash matches the password it was made from
hash(password) == <<"bcrypt", password>>
compare(candidate, stored) == stored = hash(candidate)

\* models/User.js: the paths of a user document that login reads and writes
NewUser(password) ==
    [password |-> hash(password), isActive |-> TRUE, loginAttempts |-> 0,
     lockUntil |-> NoDate]

NoExchange == [op |-> "none"]

\* one board owned by user 1, no socket connected, nothing sent yet
AtRest ==
    /\ boards = [b \in BoardIds |-> NewBoard(1, {})]
    /\ users = [u \in UserIds |-> NewUser("secret")]
    /\ now = 0
    /\ sockets = <<>>
    /\ relay = <<>>
    /\ exchange = NoExchange

\* ------------------------------------------------------------ the server
Conns == {1, 2}
IdleReq == [pc |-> "idle", op |-> "none", id |-> 0, listId |-> 0, position |-> 0,
            oldListId |-> 0, oldPosition |-> 0, status |-> 0]
NoCards == [c \in {} |-> NewCard(0, 0, 0)]
NoLists == [l \in {} |-> NewList(0, 0)]
NoCall == [op |-> "none", id |-> 0, listId |-> 0, position |-> 0, archived |-> FALSE]
Response(op, status) == [op |-> op, status |-> status]
Call(op, id, listId, position, archived) ==
    [op |-> op, id |-> id, listId |-> listId, position |-> position,
     archived |-> archived]

AllIdle == \A k \in Conns : reqs[k].pc = "idle"

\* History of a handler run: with rec the request and the collections it found
\* are recorded; without it nothing is recorded.
Record(rec, c) ==
    /\ call' = IF rec THEN c ELSE call
    /\ cards0' = IF rec THEN cards ELSE cards0
    /\ lists0' = IF rec THEN lists ELSE lists0

\* the notifications of a handler run reach the sink where history is kept
Emit(rec, ns) == sink' = IF rec THEN sink \o ns ELSE sink

\* every stored position stays within the model's range
Capped ==
    /\ \A c \in DOMAIN cards' : cards'[c].position <= MaxPos
    /\ \A l \in DOMAIN lists' : lists'[l].position <= MaxPos

\* the server after start-up against an empty database
Init ==
    /\ cards = NoCards
    /\ lists = NoLists
    /\ nextCard = 1
    /\ nextList = 1
    /\ last = Response("none", 0)
    /\ call = NoCall
    /\ cards0 = NoCards
    /\ lists0 = NoLists
    /\ reqs = [k \in Conns |-> IdleReq]
    /\ sink = <<>>
    /\ AtRest

\* POST /api/cards, run to completion
CreateCardRequest(listId, boardId, access, rec) ==
    /\ AllIdle
    /\ LET r == createCard(cards, lists, nextCard, listId, boardId, access)
       IN  /\ cards' = r.cards
           /\ nextCard' = IF r.status = 201 THEN nextCard + 1 ELSE nextCard
           /\ last' = Response("createCard", r.status)
           /\ Record(rec, Call("createCard", nextCard, listId, 0, FALSE))
           /\ Emit(rec, createCardEvents(cards, lists, nextCard, listId, boardId, access))
    /\ UNCHANGED <<collaborators, lists, nextList, reqs>>

\* PUT /api/cards/:id/position, run to completion
MoveCardRequest(id, listId, position, access, rec) ==
    /\ AllIdle
    /\ LET r == moveCard(cards, lists, id, listId, position, access)
       IN  /\ cards' = r.cards
           /\ last' = Response("moveCard", r.status)
           /\ Record(rec, Call("moveCard", id, listId, position, FALSE))
           /\ Emit(rec, moveCardEvents(cards, lists, id, listId, position, access))
    /\ UNCHANGED <<collaborators, lists, nextCard, nextList, reqs>>

\* DELETE /api/cards/:id, run to completion
DeleteCardRequest(id, access, rec) ==
    /\ AllIdle
    /\ LET r == deleteCard(cards, lists, id, access)
       IN  /\ cards' = r.cards
           /\ last' = Response("deleteCard", r.status)
           /\ Record(rec, Call("deleteCard", id, 0, 0, FALSE))
           /\ Emit(rec, deleteCardEvents(cards, lists, id, access))
    /\ UNCHANGED <<collaborators, lists, nextCard, nextList, reqs>>

\* POST /api/lists, run to completion
CreateListRequest(boardId, access, rec) ==
    /\ AllIdle
    /\ LET r == createList(cards, lists, nextList, boardId, access)
       IN  /\ lists' = r.lists
           /\ nextList' = IF r.status = 201 THEN nextList + 1 ELSE nextList
           /\ last' = Response("createList", r.status)
           /\ Record(rec, Call("createList", nextList, 0, 0, FALSE))
           /\ Emit(rec, createListEvents(cards, lists, nextList, boardId, access))
    /\ UNCHANGED <<collaborators, cards, nextCard, reqs>>

\* PUT /api/lists/:id/position, run to completion
ReorderListRequest(id, position, access, rec) ==
    /\ AllIdle
    /\ LET r == reorderList(cards, lists, id, position, access)
       IN  /\ lists' = r.lists
           /\ last' = Response("reorderList", r.status)
           /\ Record(rec, Call("reorderList", id, 0, position, FALSE))
           /\ Emit(rec, reorderListEvents(cards, lists, id, position, access))
    /\ UNCHANGED <<collaborators, cards, nextCard, nextList, reqs>>

\* DELETE /api/lists/:id, run to completion
DeleteListRequest(id, access, rec) ==
    /\ AllIdle
    /\ LET r == deleteList(cards, lists, id, access)
       IN  /\ cards' = r.cards
           /\ lists' = r.lists
           /\ last' = Response("deleteList", r.status)
           /\ Record(rec, Call("deleteList", id, 0, 0, FALSE))
           /\ Emit(rec, deleteListEvents(cards, lists, id, access))
    /\ UNCHANGED <<collaborators, nextCard, nextList, reqs>>

\* PUT /api/lists/:id/archive, run to completion
ArchiveListRequest(id, archived, access, rec) ==
    /\ AllIdle
    /\ LET r == archiveList(cards, lists, id, archived, access)
       IN  /\ lists' = r.lists
           /\ last' = Response("archiveList", r.status)
           /\ Record(rec, Call("archiveList", id, 0, 0, archived))
           /\ Emit(rec, archiveListEvents(cards, lists, id, archived, access))
    /\ UNCHANGED <<collaborators, cards, nextCard, nextList, reqs>>

\* Ids a request can name: those handed out so far (a fresh _id is never one a
\* client named before).
KnownCards == 1..(nextCard - 1)
KnownLists == 1..(nextList - 1)

\* the board of a stored list or card exists (deleteBoard removes them with it)
ItemAccess == {"member", "notMember"}

\* Spec: card requests, and the list requests that make and remove their
\* parents, one request at a time, from an empty database.
Next ==
    \/ \E l \in KnownLists, b \in BoardIds, a \in AccessOutcomes :
            nextCard <= MaxCards /\ CreateCardRequest(l, b, a, FALSE)
    \/ \E c \in KnownCards, l \in KnownLists, p \in Positions, a \in ItemAccess :
            MoveCardRequest(c, l, p, a, FALSE) /\ Capped
    \/ \E c \in KnownCards, a \in ItemAccess : DeleteCardRequest(c, a, FALSE)
    \/ \E b \in BoardIds, a \in AccessOutcomes :
            nextList <= MaxLists /\ CreateListRequest(b, a, FALSE)
    \/ \E l \in KnownLists, a \in ItemAccess : DeleteListRequest(l, a, FALSE)

Spec == Init /\ [][Next]_vars

\* SpecLists: the list requests of one board, one at a time, from an empty
\* database.
NextLists ==
    \/ \E b \in BoardIds, a \in AccessOutcomes :
            nextList <= MaxBoardLists /\ CreateListRequest(b, a, FALSE)
    \/ \E l \in KnownLists, p \in Positions, a \in ItemAccess :
            ReorderListRequest(l, p, a, FALSE) /\ Capped
    \/ \E l \in KnownLists, a \in ItemAccess : DeleteListRequest(l, a, FALSE)
    \/ \E l \in KnownLists, x \in BOOLEAN, a \in ItemAccess :
            ArchiveListRequest(l, x, a, FALSE)

SpecLists == Init /\ [][NextLists]_vars

\* SpecOps: one request applied to a store whose parents are densely numbered
\* (what inserts and in-range moves leave behind), with the request and the
\* collections it found kept as history.
ParentIds == {1, 2}
OpsItemIds == 0..MaxItems
OpsParentIds == {0} \cup ParentIds
OpsPositions == 0..(MaxItems + 1)

\* I1 for the cards of list listId in collection cs
ActiveCards(cs, listId) ==
    {c \in DOMAIN cs : cs[c].listId = listId /\ ~cs[c].archived}
DenseCards(cs, listId) ==
    /\ \A c, d \in ActiveCards(cs, listId) : c # d => cs[c].position # cs[d].position
    /\ {cs[c].position : c \in ActiveCards(cs, listId)}
            = 0..(Cardinality(ActiveCards(cs, listId)) - 1)

\* I1 for the lists of board boardId in collection ls
ActiveLists(ls, boardId) ==
    {l \in DOMAIN ls : ls[l].boardId = boardId /\ ~ls[l].archived}
DenseLists(ls, boardId) ==
    /\ \A l, m \in ActiveLists(ls, boardId) : l # m => ls[l].position # ls[m].position
    /\ {ls[l].position : l \in ActiveLists(ls, boardId)}
            = 0..(Cardinality(ActiveLists(ls, boardId)) - 1)

\* the two lists of board 1 that two createList requests leave behind
TwoLists == [l \in ParentIds |-> NewList(1, l - 1)]

\* k cards spread over the two lists, each list numbered 0..n-1
DenseCardStores ==
    UNION {{cs \in [1..k -> [listId : ParentIds, boardId : {1},
                             position : 0..(k - 1), archived : {FALSE}]] :
                \A l \in ParentIds : DenseCards(cs, l)} : k \in 0..MaxItems}

\* k lists of board 1 whose positions are a permutation of 0..k-1, any of them
\* archived (createList, in-range reorderList and archiveList produce them)
DenseListStores ==
    UNION {{ls \in [1..k -> [boardId : {1}, position : 0..(k - 1),
                             archived : BOOLEAN, cardLimit : {NoLimit}]] :
                \A l, m \in 1..k : l # m => ls[l].position # ls[m].position}
           : k \in 0..MaxItems}

InitOps ==
    /\ \/ cards \in DenseCardStores /\ lists = TwoLists
       \/ cards = NoCards /\ lists \in DenseListStores
    /\ nextCard = MaxItems + 1
    /\ nextList = MaxItems + 1
    /\ last = Response("none", 0)
    /\ call = NoCall
    /\ cards0 = NoCards
    /\ lists0 = NoLists
    /\ reqs = [k \in Conns |-> IdleReq]
    /\ sink = <<>>
    /\ AtRest

NextOps ==
    \/ \E l \in OpsParentIds, b \in BoardIds, a \in AccessOutcomes :
            call = NoCall /\ CreateCardRequest(l, b, a, TRUE)
    \/ \E c \in OpsItemIds, l \in OpsParentIds, p \in OpsPositions, a \in ItemAccess :
            call = NoCall /\ MoveCardRequest(c, l, p, a, TRUE)
    \/ \E c \in OpsItemIds, a \in ItemAccess :
            call = NoCall /\ DeleteCardRequest(c, a, TRUE)
    \/ \E b \in BoardIds, a \in AccessOutcomes :
            call = NoCall /\ CreateListRequest(b, a, TRUE)
    \/ \E l \in OpsItemIds, p \in OpsPositions, a \in ItemAccess :
            call = NoCall /\ ReorderListRequest(l, p, a, TRUE)
    \/ \E l \in OpsItemIds, a \in ItemAccess :
            call = NoCall /\ DeleteListRequest(l, a, TRUE)
    \/ \E l \in OpsItemIds, x \in BOOLEAN, a \in ItemAccess :
            call = NoCall /\ ArchiveListRequest(l, x, a, TRUE)

SpecOps == InitOps /\ [][NextOps]_vars

\* SpecConc: two connections each send one card request; the handlers' store
\* reads and writes interleave (every await of a handler is a point where the
\* other handler may run).  The store starts dense, with two lists; lists and
\* boards are not written by a card request, so the reads of a handler that
\* precede its first write on the Card collection are one step.
MaxConcCards == 3

InitConc ==
    /\ \E k \in 0..MaxConcCards :
        /\ cards \in {cs \in DenseCardStores : DOMAIN cs = 1..k}
        /\ nextCard = k + 1
    /\ lists = TwoLists
    /\ nextList = 3
    /\ last = Response("none", 0)
    /\ call = NoCall
    /\ cards0 = cards
    /\ lists0 = lists
    /\ reqs = [k \in Conns |-> IdleReq]
    /\ sink = <<>>
    /\ AtRest

Finish(k, status) ==
    reqs' = [reqs EXCEPT ![k] = [@ EXCEPT !.pc = "done", !.status = status]]
Goto(k, pc) == reqs' = [reqs EXCEPT ![k] = [@ EXCEPT !.pc = pc]]

\* moveCard up to the first updateMany of moveToList: Card.findById, the
\* checks on the target list, and the oldListId / oldPosition moveToList takes
\* from the loaded document
MoveCardBegin(k, id, listId, position) ==
    /\ reqs[k].pc = "idle"
    /\ LET r == [IdleReq EXCEPT !.op = "moveCard", !.id = id, !.listId = listId,
                                 !.position = position]
           rejected == moveCard(cards, lists, id, listId, position, "member").status
       IN  reqs' = [reqs EXCEPT ![k] =
                IF rejected >= 400
                THEN [r EXCEPT !.pc = "done", !.status = rejected]
                ELSE IF moveIsNoop(cards[id].listId, cards[id].position,
                                   listId, position)
                THEN [r EXCEPT !.pc = "done", !.status = 200,
                               !.oldListId = cards[id].listId,
                               !.oldPosition = cards[id].position]
                ELSE [r EXCEPT !.pc = IF cards[id].listId = listId
                                      THEN "shiftWithin" ELSE "shiftOld",
                               !.oldListId = cards[id].listId,
                               !.oldPosition = cards[id].position]]
    /\ sink' = IF moveCard(cards, lists, id, listId, position, "member").status >= 400
               THEN sink
               ELSE IF moveIsNoop(cards[id].listId, cards[id].position,
                                  listId, position)
               THEN sink \o cardMoved(cards[id].boardId, id, cards[id].listId,
                                      listId, position)
               ELSE sink
    /\ UNCHANGED <<collaborators, cards, lists, nextCard, nextList, last, call, cards0, lists0>>

\* moveToList, same list: await Card.updateMany(..)
MoveCardShiftWithin(k) ==
    /\ reqs[k].pc = "shiftWithin"
    /\ cards' = shiftWithinList(cards, reqs[k].id, reqs[k].oldListId,
                                reqs[k].oldPosition, reqs[k].position)
    /\ Goto(k, "save")
    /\ UNCHANGED <<collaborators, lists, nextCard, nextList, last, call, cards0, lists0, sink>>

\* moveToList, different list: first await Card.updateMany(..)
MoveCardShiftOld(k) ==
    /\ reqs[k].pc = "shiftOld"
    /\ cards' = shiftOldList(cards, reqs[k].oldListId, reqs[k].oldPosition)
    /\ Goto(k, "shiftNew")
    /\ UNCHANGED <<collaborators, lists, nextCard, nextList, last, call, cards0, lists0, sink>>

\* mutant: the write on the new list waits for a move that left that list and
\* has not saved yet (each move holding its old list until it is done)
MoveCardShiftNew_Waits(k) ==
    /\ reqs[k].pc = "shiftNew"
    /\ \A j \in Conns \ {k} :
            ~(reqs[j].pc \in {"shiftNew", "save"} /\ reqs[j].oldListId = reqs[k].listId)
    /\ cards' = shiftNewList(cards, reqs[k].listId, reqs[k].position)
    /\ Goto(k, "save")
    /\ UNCHANGED <<collaborators, lists, nextCard, nextList, last, call, cards0, lists0, sink>>

\* moveToList, different list: second await Card.updateMany(..)
MoveCardShiftNew(k) ==
    /\ reqs[k].pc = "shiftNew"
    /\ cards' = shiftNewList(cards, reqs[k].listId, reqs[k].position)
    /\ Goto(k, "save")
    /\ UNCHANGED <<collaborators, lists, nextCard, nextList, last, call, cards0, lists0, sink>>

\* mutant: the event is emitted before the save is awaited
MoveCardSave_EmitFirst(k) ==
    /\ reqs[k].pc = "save"
    /\ sink' = sink \o cardMoved(1, reqs[k].id, reqs[k].oldListId,
                                 reqs[k].listId, reqs[k].position)
    /\ IF reqs[k].id \in DOMAIN cards
       THEN /\ cards' = saveCard(cards, reqs[k].id,
                    IF reqs[k].listId # reqs[k].oldListId
                    THEN reqs[k].listId ELSE cards[reqs[k].id].listId,
                    IF reqs[k].position # reqs[k].oldPosition
                    THEN reqs[k].position ELSE cards[reqs[k].id].position)
            /\ Finish(k, 200)
       ELSE /\ cards' = cards
            /\ Finish(k, 500)
    /\ UNCHANGED <<collaborators, lists, nextCard, nextList, last, call, cards0, lists0>>

\* moveToList: this.save() writes the paths that differ from the loaded
\* document; it throws when the document is gone, and moveCard answers 500
MoveCardSave(k) ==
    /\ reqs[k].pc = "save"
    /\ IF reqs[k].id \in DOMAIN cards
       THEN /\ cards' = saveCard(cards, reqs[k].id,
                    IF reqs[k].listId # reqs[k].oldListId
                    THEN reqs[k].listId ELSE cards[reqs[k].id].listId,
                    IF reqs[k].position # reqs[k].oldPosition
                    THEN reqs[k].position ELSE cards[reqs[k].id].position)
            /\ sink' = sink \o cardMoved(cards[reqs[k].id].boardId, reqs[k].id,
                                         reqs[k].oldListId, reqs[k].listId,
                                         reqs[k].position)
            /\ Finish(k, 200)
       ELSE /\ cards' = cards
            /\ sink' = sink
            /\ Finish(k, 500)
    /\ UNCHANGED <<collaborators, lists, nextCard, nextList, last, call, cards0, lists0>>

\* deleteCard up to card.deleteOne(): Card.findById and the access check
DeleteCardBegin(k, id) ==
    /\ reqs[k].pc = "idle"
    /\ LET r == [IdleReq EXCEPT !.op = "deleteCard", !.id = id]
       IN  reqs' = [reqs EXCEPT ![k] =
                IF id \notin DOMAIN cards
                THEN [r EXCEPT !.pc = "done", !.status = 404]
                ELSE [r EXCEPT !.pc = "remove",
                               !.oldListId = cards[id].listId,
                               !.oldPosition = cards[id].position]]
    /\ UNCHANGED <<collaborators, cards, lists, nextCard, nextList, last, call, cards0, lists0, sink>>

\* card.deleteOne(): the document is removed (if another request has not yet)
DeleteCardRemove(k) ==
    /\ reqs[k].pc = "remove"
    /\ cards' = removeCard(cards, reqs[k].id)
    /\ Goto(k, "compact")
    /\ UNCHANGED <<collaborators, lists, nextCard, nextList, last, call, cards0, lists0, sink>>

\* cardSchema.post('deleteOne'): await updateMany(..), then the event (to the
\* room of the card's board, board 1 here) and the response
DeleteCardCompact(k) ==
    /\ reqs[k].pc = "compact"
    /\ cards' = compactCards(cards, [listId |-> reqs[k].oldListId,
                                     position |-> reqs[k].oldPosition])
    /\ sink' = sink \o cardDeleted(1, reqs[k].id)
    /\ Finish(k, 200)
    /\ UNCHANGED <<collaborators, lists, nextCard, nextList, last, call, cards0, lists0>>

\* createCard up to newCard.save(): the access check, Card.countDocuments and
\* new Card(..), which draws the _id
CreateCardBegin(k, listId) ==
    /\ reqs[k].pc = "idle"
    /\ reqs' = [reqs EXCEPT ![k] =
            [IdleReq EXCEPT !.op = "createCard", !.pc = "insert", !.id = nextCard,
                            !.listId = listId,
                            !.position = countCards(cards, listId)]]
    /\ nextCard' = nextCard + 1
    /\ UNCHANGED <<collaborators, cards, lists, nextList, last, call, cards0, lists0, sink>>

\* createCard: await newCard.save(), then the event and the response
CreateCardInsert(k) ==
    /\ reqs[k].pc = "insert"
    /\ cards' = [c \in DOMAIN cards \cup {reqs[k].id} |->
                    IF c = reqs[k].id
                    THEN NewCard(reqs[k].listId, 1, reqs[k].position)
                    ELSE cards[c]]
    /\ sink' = sink \o cardCreated(1, reqs[k].id, reqs[k].listId, reqs[k].position)
    /\ Finish(k, 201)
    /\ UNCHANGED <<collaborators, lists, nextCard, nextList, last, call, cards0, lists0>>

\* a position the client can see to be in range when it sends the move
InRange(id, listId, position) ==
    /\ id \in DOMAIN cards
    /\ IF cards[id].listId = listId
       THEN position < countCards(cards, listId)
       ELSE position <= countCards(cards, listId)

NextConc ==
    \/ \E k \in Conns, c \in 1..MaxConcCards, l \in ParentIds, p \in 0..MaxConcCards :
            MoveCardBegin(k, c, l, p) /\ InRange(c, l, p)
    \/ \E k \in Conns : MoveCardShiftWithin(k)
    \/ \E k \in Conns : MoveCardShiftOld(k)
    \/ \E k \in Conns : MoveCardShiftNew(k)
    \/ \E k \in Conns : MoveCardSave(k)
    \/ \E k \in Conns, c \in 1..MaxConcCards : DeleteCardBegin(k, c)
    \/ \E k \in Conns : DeleteCardRemove(k)
    \/ \E k \in Conns : DeleteCardCompact(k)
    \/ \E k \in Conns, l \in ParentIds : CreateCardBegin(k, l)
    \/ \E k \in Conns : CreateCardInsert(k)

SpecConc == InitConc /\ [][NextConc]_vars

\* SpecConcFair: SpecConc on an event loop that runs every continuation that
\* is ready; the store answers every read and write, so a handler that has
\* started is always ready to take its next step.
StepOf(k) ==
    \/ MoveCardShiftWithin(k)
    \/ MoveCardShiftOld(k)
    \/ MoveCardShiftNew(k)
    \/ MoveCardSave(k)
    \/ DeleteCardRemove(k)
    \/ DeleteCardCompact(k)
    \/ CreateCardInsert(k)

SpecConcFair == SpecConc /\ \A k \in Conns : WF_vars(StepOf(k))

\* SpecFail: one move whose store writes may fail.  An await that throws
\* inside moveToList leaves moveCard through its catch block, which answers
\* 500 and undoes nothing.
MoveCardWriteFails(k) ==
    /\ reqs[k].pc \in {"shiftWithin", "shiftOld", "shiftNew", "save"}
    /\ Finish(k, 500)
    /\ UNCHANGED <<collaborators, cards, lists, nextCard, nextList, last, call, cards0, lists0, sink>>

NextFail ==
    \/ \E c \in 1..MaxConcCards, l \in ParentIds, p \in 0..MaxConcCards :
            MoveCardBegin(1, c, l, p) /\ InRange(c, l, p)
    \/ MoveCardShiftWithin(1)
    \/ MoveCardShiftOld(1)
    \/ MoveCardShiftNew(1)
    \/ MoveCardSave(1)
    \/ MoveCardWriteFails(1)

SpecFail == InitConc /\ [][NextFail]_vars

\* SpecBoards: one card request applied to a store of two boards.  Lists 1
\* and 2 belong to board 1, list 3 to board 2; lists 2 and 3 may carry a
\* cardLimit (updateList sets it at any time, whatever the list holds); every
\* card was created with the board of its list.
MaxBoardCards == 3
MaxLimit == 2
TwoBoards == {1, 2}
BoardListIds == {1, 2, 3}
CardLimits == {NoLimit} \cup (1..MaxLimit)

ThreeLists(limit2, limit3) ==
    [l \in BoardListIds |->
        [boardId |-> IF l = 3 THEN 2 ELSE 1,
         position |-> IF l = 2 THEN 1 ELSE 0,
         archived |-> FALSE,
         cardLimit |-> IF l = 2 THEN limit2 ELSE IF l = 3 THEN limit3 ELSE NoLimit]]

BoardCardStores ==
    UNION {{cs \in [1..k -> [listId : BoardListIds, boardId : TwoBoards,
                             position : 0..(k - 1), archived : {FALSE}]] :
                /\ \A c \in 1..k : cs[c].boardId = ThreeLists(NoLimit, NoLimit)[cs[c].listId].boardId
                /\ \A l \in BoardListIds : DenseCards(cs, l)}
           : k \in 0..MaxBoardCards}

InitBoards ==
    /\ cards \in BoardCardStores
    /\ \E m2, m3 \in CardLimits : lists = ThreeLists(m2, m3)
    /\ nextCard = MaxBoardCards + 1
    /\ nextList = 4
    /\ last = Response("none", 0)
    /\ call = NoCall
    /\ cards0 = NoCards
    /\ lists0 = NoLists
    /\ reqs = [k \in Conns |-> IdleReq]
    /\ sink = <<>>
    /\ AtRest

NextBoards ==
    \/ \E l \in {0} \cup BoardListIds, b \in TwoBoards, a \in AccessOutcomes :
            call = NoCall /\ CreateCardRequest(l, b, a, TRUE)
    \/ \E c \in 0..MaxBoardCards, l \in {0} \cup BoardListIds,
          p \in 0..MaxBoardCards, a \in ItemAccess :
            call = NoCall /\ MoveCardRequest(c, l, p, a, TRUE)

SpecBoards == InitBoards /\ [][NextBoards]_vars

\* SpecAuth: one card request of one user on the store of SpecBoards.  The
\* user is the owner or a member of board 1 and of no other board; the outcome
\* of the access check is computed from the board the handler loads.
UserBoards == {1}

\* Board.findById(boardId) followed by board.isMember(userId)
isMember(boardId) ==
    IF boardId \notin TwoBoards THEN "noBoard"
    ELSE IF boardId \in UserBoards THEN "member"
    ELSE "notMember"

\* moveCard, deleteCard: the board loaded is the one stored in the card
cardAccess(id) ==
    IF id \in DOMAIN cards THEN isMember(cards[id].boardId) ELSE "noBoard"

NextAuth ==
    \/ \E l \in {0} \cup BoardListIds, b \in {0} \cup TwoBoards :
            call = NoCall /\ CreateCardRequest(l, b, isMember(b), TRUE)
    \/ \E c \in 0..MaxBoardCards, l \in {0} \cup BoardListIds,
          p \in 0..MaxBoardCards :
            call = NoCall /\ MoveCardRequest(c, l, p, cardAccess(c), TRUE)
    \/ \E c \in 0..MaxBoardCards :
            call = NoCall /\ DeleteCardRequest(c, cardAccess(c), TRUE)

SpecAuth == InitBoards /\ [][NextAuth]_vars

\* SpecCascade: SpecConc with the requests that remove a parent.  Board 1 is
\* owned by user 1 and holds both lists; a connection deletes the board or a
\* list while the other creates a card, every await of either handler being a
\* point where the other may run.

\* board.isOwner(userId)
isOwner(bs, boardId, userId) == bs[boardId].ownerId = userId

\* `!board || !board.isMember(userId)`: the owner counts as a member
boardAccess(bs, boardId, userId) ==
    IF boardId \notin DOMAIN bs THEN "noBoard"
    ELSE IF isOwner(bs, boardId, userId) \/ userId \in bs[boardId].members
    THEN "member"
    ELSE "notMember"

\* deleteBoard up to board.deleteOne(): Board.findById and the owner check
DeleteBoardBegin(k, boardId, userId) ==
    /\ reqs[k].pc = "idle"
    /\ LET r == [IdleReq EXCEPT !.op = "deleteBoard", !.id = boardId]
       IN  reqs' = [reqs EXCEPT ![k] =
                IF boardId \notin DOMAIN boards
                THEN [r EXCEPT !.pc = "done", !.status = 404]
                ELSE IF ~isOwner(boards, boardId, userId)
                THEN [r EXCEPT !.pc = "done", !.status = 403]
                ELSE [r EXCEPT !.pc = "cascadeLists"]]
    /\ UNCHANGED <<collaborators, cards, lists, nextCard, nextList, last, call,
                   cards0, lists0, sink>>

\* boardSchema.pre('deleteOne'): await List.deleteMany({ boardId })
DeleteBoardLists(k) ==
    /\ reqs[k].pc = "cascadeLists"
    /\ lists' = [l \in {m \in DOMAIN lists : lists[m].boardId # reqs[k].id} |->
                    lists[l]]
    /\ Goto(k, "cascadeCards")
    /\ UNCHANGED <<collaborators, cards, nextCard, nextList, last, call,
                   cards0, lists0, sink>>

\* boardSchema.pre('deleteOne'): await Card.deleteMany({ boardId })
DeleteBoardCards(k) ==
    /\ reqs[k].pc = "cascadeCards"
    /\ cards' = [c \in {d \in DOMAIN cards : cards[d].boardId # reqs[k].id} |->
                    cards[c]]
    /\ Goto(k, "removeBoard")
    /\ UNCHANGED <<collaborators, lists, nextCard, nextList, last, call,
                   cards0, lists0, sink>>

\* board.deleteOne() after its pre hook, then the response
DeleteBoardRemove(k) ==
    /\ reqs[k].pc = "removeBoard"
    /\ boards' = [b \in DOMAIN boards \ {reqs[k].id} |-> boards[b]]
    /\ Finish(k, 200)
    /\ UNCHANGED <<users, now, sockets, relay, exchange, cards, lists, nextCard,
                   nextList, last, call, cards0, lists0, sink>>

\* deleteList up to list.deleteOne(): List.findById, the access check and
\* Card.countDocuments({ listId, archived: false })
DeleteListBegin(k, listId, userId) ==
    /\ reqs[k].pc = "idle"
    /\ LET r == [IdleReq EXCEPT !.op = "deleteList", !.id = listId]
       IN  reqs' = [reqs EXCEPT ![k] =
                IF listId \notin DOMAIN lists
                THEN [r EXCEPT !.pc = "done", !.status = 404]
                ELSE IF boardAccess(boards, lists[listId].boardId, userId) # "member"
                THEN [r EXCEPT !.pc = "done", !.status = 403]
                ELSE IF countActiveCards(cards, listId) > 0
                THEN [r EXCEPT !.pc = "done", !.status = 400]
                ELSE [r EXCEPT !.pc = "cascade",
                               !.oldListId = lists[listId].boardId,
                               !.oldPosition = lists[listId].position]]
    /\ UNCHANGED <<collaborators, cards, lists, nextCard, nextList, last, call,
                   cards0, lists0, sink>>

\* listSchema.pre('deleteOne'): await Card.deleteMany({ listId })
DeleteListCascade(k) ==
    /\ reqs[k].pc = "cascade"
    /\ cards' = cascadeCards(cards, reqs[k].id)
    /\ Goto(k, "removeList")
    /\ UNCHANGED <<collaborators, lists, nextCard, nextList, last, call,
                   cards0, lists0, sink>>

\* list.deleteOne() after its pre hook
DeleteListRemove(k) ==
    /\ reqs[k].pc = "removeList"
    /\ lists' = [l \in DOMAIN lists \ {reqs[k].id} |-> lists[l]]
    /\ Goto(k, "compactLists")
    /\ UNCHANGED <<collaborators, cards, nextCard, nextList, last, call,
                   cards0, lists0, sink>>

\* listSchema.post('deleteOne'): await updateMany(..), then the event (which
\* reaches nobody, see listDeleted) and the response
DeleteListCompact(k) ==
    /\ reqs[k].pc = "compactLists"
    /\ lists' = compactLists(lists, [boardId |-> reqs[k].oldListId,
                                     position |-> reqs[k].oldPosition])
    /\ sink' = sink \o listDeleted(reqs[k].oldListId, reqs[k].id)
    /\ Finish(k, 200)
    /\ UNCHANGED <<collaborators, cards, nextCard, nextList, last, call,
                   cards0, lists0>>

\* createCard by a user: Board.findById(boardId) and isMember, here for
\* board 1, before the count and the save
CreateCardChecked(k, listId, userId) ==
    IF boardAccess(boards, 1, userId) = "member"
    THEN CreateCardBegin(k, listId)
    ELSE /\ reqs[k].pc = "idle"
         /\ reqs' = [reqs EXCEPT ![k] =
                [IdleReq EXCEPT !.op = "createCard", !.pc = "done",
                                !.listId = listId, !.status = 403]]
         /\ UNCHANGED <<collaborators, cards, lists, nextCard, nextList, last,
                        call, cards0, lists0, sink>>

NextCascade ==
    \/ \E b \in {1, 2}, u \in UserIds : DeleteBoardBegin(1, b, u)
    \/ DeleteBoardLists(1)
    \/ DeleteBoardCards(1)
    \/ DeleteBoardRemove(1)
    \/ \E l \in 0..2, u \in UserIds : DeleteListBegin(1, l, u)
    \/ DeleteListCascade(1)
    \/ DeleteListRemove(1)
    \/ DeleteListCompact(1)
    \/ \E l \in ParentIds, u \in UserIds : CreateCardChecked(2, l, u)
    \/ CreateCardInsert(2)

SpecCascade == InitConc /\ [][NextCascade]_vars

\* SpecHttp: one request to a card route behind the auth middleware.  The
\* request carries any Authorization header; the store holds board 1, owned by
\* user 1, and the accounts of users 1 and 2 (a token may name user 3, whose
\* account is gone).
MaxTime == 2

\* a token as jwt.sign makes it (payload id, exp, signed with a key), the
\* empty string, or a string that is no JWT at all
Jwt(id, exp, key) == [form |-> "jwt", id |-> id, exp |-> exp, key |-> key]
EmptyToken == [form |-> "empty", id |-> 0, exp |-> 0, key |-> ""]
InvalidToken == [form |-> "garbage", id |-> 0, exp |-> 0, key |-> ""]
Tokens ==
    {EmptyToken, InvalidToken}
        \cup {Jwt(u, e, s) : u \in 1..3, e \in 0..(MaxTime + 1),
                             s \in {"JWT_SECRET", "forged"}}

\* the Authorization header: absent, or a prefix followed by a token
NoHeader == [present |-> FALSE, prefix |-> "", token |-> EmptyToken]
Headers ==
    {NoHeader}
        \cup [present : {TRUE}, prefix : {"Bearer ", "Bearer", "Basic "},
              token : Tokens]

\* mutant: the expiry of the token is not looked at
verify_NoExpiry(token, t) ==
    IF token.form # "jwt" \/ token.key # "JWT_SECRET" THEN "JsonWebTokenError"
    ELSE "ok"

\* jwt.verify(token, process.env.JWT_SECRET)
verify(token, t) ==
    IF token.form # "jwt" \/ token.key # "JWT_SECRET" THEN "JsonWebTokenError"
    ELSE IF t >= token.exp THEN "TokenExpiredError"
    ELSE "ok"

\* middleware/auth.js auth: 401, or next() with req.user
Next0 == 0
auth(header, us, t) ==
    IF ~header.present THEN [status |-> 401, user |-> 0]
    ELSE IF header.prefix # "Bearer " THEN [status |-> 401, user |-> 0]
    ELSE IF header.token.form = "empty" THEN [status |-> 401, user |-> 0]
    ELSE IF verify(header.token, t) # "ok" THEN [status |-> 401, user |-> 0]
    ELSE IF header.token.id \notin DOMAIN us THEN [status |-> 401, user |-> 0]
    ELSE [status |-> Next0, user |-> header.token.id]

InitHttp ==
    /\ \E k \in 0..MaxConcCards :
        /\ cards \in {cs \in DenseCardStores : DOMAIN cs = 1..k}
        /\ nextCard = k + 1
    /\ lists = TwoLists
    /\ nextList = 3
    /\ last = Response("none", 0)
    /\ call = NoCall
    /\ cards0 = cards
    /\ lists0 = lists
    /\ reqs = [k \in Conns |-> IdleReq]
    /\ sink = <<>>
    /\ boards = [b \in BoardIds |-> NewBoard(1, {})]
    /\ users = [u \in UserIds |-> NewUser("secret")]
    /\ now \in 0..MaxTime
    /\ sockets = <<>>
    /\ relay = <<>>
    /\ exchange = NoExchange

\* the middleware runs on the request: it answers 401 or calls next()
Auth(header) ==
    /\ exchange.op = "none"
    /\ LET a == auth(header, users, now)
       IN  /\ exchange' = [op |-> "auth", header |-> header,
                           status |-> a.status, user |-> a.user]
           /\ last' = IF a.status = 401 THEN Response("auth", 401) ELSE last
    /\ UNCHANGED <<boards, users, now, sockets, relay, cards, lists, nextCard,
                   nextList, call, cards0, lists0, reqs, sink>>

\* next(): the route's handler runs with req.user
Passed == exchange.op = "auth" /\ exchange.status = Next0 /\ call = NoCall

cardAccessOf(id, userId) ==
    IF id \in DOMAIN cards THEN boardAccess(boards, cards[id].boardId, userId)
    ELSE "noBoard"

NextHttp ==
    \/ \E h \in Headers : Auth(h)
    \/ \E l \in ParentIds, b \in {1, 2} :
            Passed /\ CreateCardRequest(l, b, boardAccess(boards, b, exchange.user), TRUE)
    \/ \E c \in 1..MaxConcCards, l \in ParentIds, p \in 0..MaxConcCards :
            Passed /\ MoveCardRequest(c, l, p, cardAccessOf(c, exchange.user), TRUE)
    \/ \E c \in 1..MaxConcCards :
            Passed /\ DeleteCardRequest(c, cardAccessOf(c, exchange.user), TRUE)

SpecHttp == InitHttp /\ [][NextHttp]_vars

\* SpecLogin: logins on the accounts of users 1 (active) and 2 (deactivated),
\* and with an email that has no account, processed one at a time while the
\* clock runs.  The body has passed the joi schema of the route (a well-formed
\* email and a non-empty password).  bcrypt.compare on a hash of cost 12 takes
\* longer than a millisecond, so Date.now() in incLoginAttempts reads a later
\* time than it did in isLocked.
MaxClock == 12
LockTicks == 2
TokenTicks == 3

maxAttempts == 5
lockTime == LockTicks

Emails == 1..3
Passwords == {"secret", "wrong"}
NoToken == EmptyToken
NoUser == [password |-> <<>>, isActive |-> FALSE, loginAttempts |-> 0,
           lockUntil |-> NoDate]

\* userSchema.virtual('isLocked')
isLocked(user, t) == user.lockUntil # NoDate /\ user.lockUntil > t

\* userSchema.methods.updateLastLogin
updateLastLogin(user) ==
    [user EXCEPT !.loginAttempts = 0, !.lockUntil = NoDate]

\* mutant: the counter is compared before it is incremented
incLoginAttempts_Late(user, t) ==
    IF user.lockUntil # NoDate /\ user.lockUntil < t
    THEN [user EXCEPT !.loginAttempts = 1, !.lockUntil = NoDate]
    ELSE [user EXCEPT !.loginAttempts = @ + 1,
                      !.lockUntil = IF user.loginAttempts >= maxAttempts
                                       /\ ~isLocked(user, t)
                                    THEN t + lockTime ELSE @]

\* userSchema.methods.incLoginAttempts
incLoginAttempts(user, t) ==
    IF user.lockUntil # NoDate /\ user.lockUntil < t
    THEN [user EXCEPT !.loginAttempts = 1, !.lockUntil = NoDate]
    ELSE [user EXCEPT !.loginAttempts = @ + 1,
                      !.lockUntil = IF user.loginAttempts + 1 >= maxAttempts
                                       /\ ~isLocked(user, t)
                                    THEN t + lockTime ELSE @]

\* userSchema.methods.generateAuthToken
generateAuthToken(id, t) == Jwt(id, t + TokenTicks, "JWT_SECRET")

\* mutant: a deactivated account is not turned away
rejectedEarly_Inactive(us, email, t) ==
    \/ email \notin DOMAIN us
    \/ isLocked(us[email], t)

\* findByCredentials before the password is compared: no such user, the
\* account locked, or deactivated
rejectedEarly(us, email, t) ==
    \/ email \notin DOMAIN us
    \/ isLocked(us[email], t)
    \/ ~us[email].isActive

NoLogin ==
    [op |-> "none", pc |-> "done", email |-> 0, password |-> "", at |-> 0,
     before |-> NoUser, status |-> 0, token |-> NoToken,
     failures |-> [u \in UserIds |-> 0]]

InitLogin ==
    /\ cards = NoCards
    /\ lists = TwoLists
    /\ nextCard = 1
    /\ nextList = 3
    /\ last = Response("none", 0)
    /\ call = NoCall
    /\ cards0 = NoCards
    /\ lists0 = NoLists
    /\ reqs = [k \in Conns |-> IdleReq]
    /\ sink = <<>>
    /\ boards = [b \in BoardIds |-> NewBoard(1, {})]
    /\ users = [u \in UserIds |->
                    [NewUser("secret") EXCEPT !.isActive = (u = 1)]]
    /\ now = 0
    /\ sockets = <<>>
    /\ relay = <<>>
    /\ exchange = NoLogin

LoginFrame ==
    UNCHANGED <<boards, now, sockets, relay, cards, lists, nextCard, nextList,
                last, call, cards0, lists0, reqs, sink>>

\* POST /api/auth/login up to comparePassword
LoginBegin(email, password) ==
    /\ exchange.pc = "done"
    /\ exchange' =
        [exchange EXCEPT
            !.op = "login", !.email = email, !.password = password, !.at = now,
            !.before = IF email \in DOMAIN users THEN users[email] ELSE NoUser,
            !.pc = IF rejectedEarly(users, email, now) THEN "done" ELSE "compare",
            !.status = IF rejectedEarly(users, email, now) THEN 401 ELSE 0,
            !.token = NoToken]
    /\ users' = users
    /\ LoginFrame

\* comparePassword has answered: incLoginAttempts and 401, or updateLastLogin
\* and the token
LoginCompare ==
    /\ exchange.pc = "compare"
    /\ now > exchange.at
    /\ LET u == exchange.email
           isMatch == compare(exchange.password, users[u].password)
           expired == users[u].lockUntil # NoDate
       IN  IF isMatch
           THEN /\ users' = [users EXCEPT ![u] = updateLastLogin(@)]
                /\ exchange' = [exchange EXCEPT
                        !.pc = "done", !.status = 200,
                        !.token = generateAuthToken(u, now),
                        !.failures = [@ EXCEPT ![u] = 0]]
           ELSE /\ users' = [users EXCEPT ![u] = incLoginAttempts(@, now)]
                /\ exchange' = [exchange EXCEPT
                        !.pc = "done", !.status = 401,
                        !.failures = [@ EXCEPT ![u] = IF expired THEN 1 ELSE @ + 1]]
    /\ LoginFrame

\* time passes
Tick ==
    /\ now < MaxClock
    /\ now' = now + 1
    /\ UNCHANGED <<boards, users, sockets, relay, exchange, cards, lists,
                   nextCard, nextList, last, call, cards0, lists0, reqs, sink>>

NextLogin ==
    \/ \E e \in Emails, p \in Passwords : LoginBegin(e, p)
    \/ LoginCompare
    \/ Tick

SpecLogin == InitLogin /\ [][NextLogin]_vars

\* SpecDeleteFail: one delete of a card or of a list whose compaction write
\* may fail.  The post('deleteOne') hooks catch the error of their updateMany
\* and log it, so deleteOne() resolves and the handler goes on to its event
\* and its response.
DeleteCardCompactFails(k) ==
    /\ reqs[k].pc = "compact"
    /\ sink' = sink \o cardDeleted(1, reqs[k].id)
    /\ Finish(k, 200)
    /\ UNCHANGED <<collaborators, cards, lists, nextCard, nextList, last, call,
                   cards0, lists0>>

DeleteListCompactFails(k) ==
    /\ reqs[k].pc = "compactLists"
    /\ sink' = sink \o listDeleted(reqs[k].oldListId, reqs[k].id)
    /\ Finish(k, 200)
    /\ UNCHANGED <<collaborators, cards, lists, nextCard, nextList, last, call,
                   cards0, lists0>>

NextDeleteFail ==
    \/ \E c \in 1..MaxConcCards : DeleteCardBegin(1, c)
    \/ DeleteCardRemove(1)
    \/ DeleteCardCompact(1)
    \/ DeleteCardCompactFails(1)
    \/ \E l \in ParentIds, u \in UserIds : DeleteListBegin(1, l, u)
    \/ DeleteListCascade(1)
    \/ DeleteListRemove(1)
    \/ DeleteListCompact(1)
    \/ DeleteListCompactFails(1)

SpecDeleteFail == InitConc /\ [][NextDeleteFail]_vars

\* SpecSockets: two authenticated sockets, of user 2 and of user 1, on two
\* boards owned by user 1, while the owner adds user 2 to a board and removes
\* it again.  join-board awaits Board.findById, so the board it checks is
\* read one step before the socket joins; the other handlers run in one step.
SocketIds == {1, 2}
SocketBoards == {1, 2}

\* a socket after io.on('connection'); lastJoin and leftSince are history:
\* the board of its most recent successful join-board, and whether it has
\* sent leave-board for that board since
NewSocket(userId) ==
    [user |-> userId, connected |-> TRUE, currentBoard |-> NoBoard, rooms |-> {},
     pending |-> NoBoard, verdict |-> "none", lastJoin |-> NoBoard,
     leftSince |-> FALSE]

\* what a handler emits: socket.to(room).emit(..) or socket.emit(..)
ToRoom(event, boardId, s) ==
    [event |-> event, target |-> "room", board |-> boardId, socket |-> s,
     user |-> sockets[s].user]
ToSender(event, boardId, s) ==
    [event |-> event, target |-> "sender", board |-> boardId, socket |-> s,
     user |-> sockets[s].user]

\* history: the event or request handled last
Handled(op, s, boardId) ==
    exchange' = [op |-> op, socket |-> s, board |-> boardId,
                 wasIn |-> IF s \in DOMAIN sockets THEN boardId \in sockets[s].rooms
                           ELSE FALSE]

SocketFrame ==
    UNCHANGED <<users, now, cards, lists, nextCard, nextList, last, call,
                cards0, lists0, reqs, sink>>

InitSockets ==
    /\ cards = NoCards
    /\ lists = TwoLists
    /\ nextCard = 1
    /\ nextList = 3
    /\ last = Response("none", 0)
    /\ call = NoCall
    /\ cards0 = NoCards
    /\ lists0 = NoLists
    /\ reqs = [k \in Conns |-> IdleReq]
    /\ sink = <<>>
    /\ boards = [b \in SocketBoards |-> NewBoard(1, {})]
    /\ users = [u \in UserIds |-> NewUser("secret")]
    /\ now = 0
    /\ sockets = [s \in SocketIds |-> NewSocket(IF s = 1 THEN 2 ELSE 1)]
    /\ relay = <<>>
    /\ exchange = [op |-> "none", socket |-> 0, board |-> NoBoard, wasIn |-> FALSE]

\* join-board up to the await: Board.findById(boardId) and what the handler
\* will find in the board it gets
JoinBoardRead(s, boardId) ==
    /\ sockets[s].connected
    /\ sockets[s].pending = NoBoard
    /\ sockets' = [sockets EXCEPT ![s] =
            [@ EXCEPT !.pending = boardId,
                      !.verdict = boardAccess(boards, boardId, sockets[s].user)]]
    /\ relay' = <<>>
    /\ Handled("join-board-read", s, boardId)
    /\ boards' = boards
    /\ SocketFrame

\* join-board after the await
JoinBoardResume(s) ==
    /\ sockets[s].pending # NoBoard
    /\ LET b == sockets[s].pending
       IN  /\ IF sockets[s].verdict = "member"
              THEN /\ sockets' = [sockets EXCEPT ![s] =
                            [@ EXCEPT !.rooms = @ \cup {b}, !.currentBoard = b,
                                      !.pending = NoBoard, !.verdict = "none",
                                      !.lastJoin = b, !.leftSince = FALSE]]
                   /\ relay' = <<ToRoom("user-joined", b, s),
                                 ToSender("board-joined", b, s)>>
              ELSE /\ sockets' = [sockets EXCEPT ![s] =
                            [@ EXCEPT !.pending = NoBoard, !.verdict = "none"]]
                   /\ relay' = <<ToSender("error", b, s)>>
           /\ Handled("join-board", s, b)
    /\ boards' = boards
    /\ SocketFrame

\* socket.on('leave-board')
LeaveBoard(s, boardId) ==
    /\ sockets[s].connected
    /\ sockets' = [sockets EXCEPT ![s] =
            [@ EXCEPT !.rooms = @ \ {boardId},
                      !.currentBoard = IF @ = boardId THEN NoBoard ELSE @,
                      !.leftSince = IF sockets[s].lastJoin = boardId THEN TRUE ELSE @]]
    /\ relay' = <<ToRoom("user-left", boardId, s), ToSender("board-left", boardId, s)>>
    /\ Handled("leave-board", s, boardId)
    /\ boards' = boards
    /\ SocketFrame

\* mutant: any joined board lets the event through
notJoined_Any(socket, boardId) == socket.currentBoard = NoBoard

\* `!socket.currentBoard || socket.currentBoard !== boardId`
notJoined(socket, boardId) ==
    socket.currentBoard = NoBoard \/ socket.currentBoard # boardId

\* the check and the broadcast that move-card and reorder-lists share
broadcast(s, boardId, event) ==
    IF notJoined(sockets[s], boardId)
    THEN <<ToSender("error", boardId, s)>>
    ELSE <<ToRoom(event, boardId, s)>>

\* socket.on('move-card')
MoveCardEvent(s, boardId) ==
    /\ sockets[s].connected
    /\ relay' = broadcast(s, boardId, "card-moved")
    /\ Handled("move-card", s, boardId)
    /\ UNCHANGED <<boards, sockets>>
    /\ SocketFrame

\* socket.on('reorder-lists')
ReorderListsEvent(s, boardId) ==
    /\ sockets[s].connected
    /\ relay' = broadcast(s, boardId, "lists-reordered")
    /\ Handled("reorder-lists", s, boardId)
    /\ UNCHANGED <<boards, sockets>>
    /\ SocketFrame

\* socket.on('disconnect'): the socket has left its rooms
Disconnect(s) ==
    /\ sockets[s].connected
    /\ relay' = IF sockets[s].currentBoard # NoBoard
                THEN <<ToRoom("user-left", sockets[s].currentBoard, s)>>
                ELSE <<>>
    /\ Handled("disconnect", s, sockets[s].currentBoard)
    /\ sockets' = [sockets EXCEPT ![s] = [@ EXCEPT !.connected = FALSE, !.rooms = {}]]
    /\ boards' = boards
    /\ SocketFrame

\* boardController addMember: the owner adds a user who is not yet a member
AddMemberRequest(boardId, actor, userId) ==
    /\ boards' =
        IF boardId \in DOMAIN boards /\ isOwner(boards, boardId, actor)
           /\ userId \in DOMAIN users
           /\ boardAccess(boards, boardId, userId) # "member"
        THEN [boards EXCEPT ![boardId] = [@ EXCEPT !.members = @ \cup {userId}]]
        ELSE boards
    /\ relay' = <<>>
    /\ Handled("addMember", 0, boardId)
    /\ sockets' = sockets
    /\ SocketFrame

\* boardController removeMember: by the owner or by the member itself, never
\* of the owner
RemoveMemberRequest(boardId, actor, userId) ==
    /\ boards' =
        IF boardId \in DOMAIN boards
           /\ (isOwner(boards, boardId, actor) \/ actor = userId)
           /\ ~isOwner(boards, boardId, userId)
        THEN [boards EXCEPT ![boardId] = [@ EXCEPT !.members = @ \ {userId}]]
        ELSE boards
    /\ relay' = <<>>
    /\ Handled("removeMember", 0, boardId)
    /\ sockets' = sockets
    /\ SocketFrame

NextSockets ==
    \/ \E s \in SocketIds, b \in SocketBoards \cup {3} : JoinBoardRead(s, b)
    \/ \E s \in SocketIds : JoinBoardResume(s)
    \/ \E s \in SocketIds, b \in SocketBoards : LeaveBoard(s, b)
    \/ \E s \in SocketIds, b \in SocketBoards : MoveCardEvent(s, b)
    \/ \E s \in SocketIds, b \in SocketBoards : ReorderListsEvent(s, b)
    \/ \E s \in SocketIds : Disconnect(s)
    \/ \E b \in SocketBoards, a, u \in UserIds : AddMemberRequest(b, a, u)
    \/ \E b \in SocketBoards, a, u \in UserIds : RemoveMemberRequest(b, a, u)

SpecSockets == InitSockets /\ [][NextSockets]_vars

\* SpecMethods: the two move methods of the models called directly on a
\* document of a densely numbered store, and called once more to take the
\* document back to where it was.  card.moveToList takes null for "no
\* position"; list.moveToPosition throws on a negative position.
MoveToListCall(id, newListId, newPosition) ==
    /\ call = NoCall
    /\ id \in DOMAIN cards
    /\ cards' = moveToList(cards, id, newListId, newPosition)
    /\ call' = Call("moveToList", id, newListId, newPosition, FALSE)
    /\ cards0' = cards
    /\ lists0' = lists
    /\ UNCHANGED <<collaborators, lists, nextCard, nextList, last, reqs, sink>>

MoveToListBack ==
    /\ call.op = "moveToList"
    /\ cards' = moveToList(cards, call.id, cards0[call.id].listId,
                           cards0[call.id].position)
    /\ call' = [call EXCEPT !.op = "moveToListBack"]
    /\ UNCHANGED <<collaborators, lists, nextCard, nextList, last, cards0, lists0, reqs, sink>>

MoveToPositionCall(id, newPosition) ==
    /\ call = NoCall
    /\ id \in DOMAIN lists
    /\ lists' = moveToPosition(lists, id, newPosition)
    /\ call' = Call("moveToPosition", id, 0, newPosition, FALSE)
    /\ cards0' = cards
    /\ lists0' = lists
    /\ UNCHANGED <<collaborators, cards, nextCard, nextList, last, reqs, sink>>

MoveToPositionBack ==
    /\ call.op = "moveToPosition"
    /\ lists' = moveToPosition(lists, call.id, lists0[call.id].position)
    /\ call' = [call EXCEPT !.op = "moveToPositionBack"]
    /\ UNCHANGED <<collaborators, cards, nextCard, nextList, last, cards0, lists0, reqs, sink>>

NextMethods ==
    \/ \E c \in 1..MaxItems, l \in ParentIds, p \in {NullPosition} \cup OpsPositions :
            MoveToListCall(c, l, p)
    \/ MoveToListBack
    \/ \E l \in 1..MaxItems, p \in OpsPositions : MoveToPositionCall(l, p)
    \/ MoveToPositionBack

SpecMethods == InitOps /\ [][NextMethods]_vars

\* SpecRetry: SpecFail with a client that sends the same move once more after
\* a 500; the request it resends is kept in call.
MoveCardFailed(k) ==
    /\ call = NoCall
    /\ reqs[k].pc = "done"
    /\ reqs[k].op = "moveCard"
    /\ reqs[k].status = 500
    /\ call' = Call("moveCard", reqs[k].id, reqs[k].listId, reqs[k].position, FALSE)
    /\ reqs' = [reqs EXCEPT ![k] = IdleReq]
    /\ UNCHANGED <<collaborators, cards, lists, nextCard, nextList, last, cards0, lists0, sink>>

MoveCardRetry(k) ==
    /\ call.op = "moveCard"
    /\ MoveCardBegin(k, call.id, call.listId, call.position)

NextRetry ==
    \/ \E c \in 1..MaxConcCards, l \in ParentIds, p \in 0..MaxConcCards :
            call = NoCall /\ MoveCardBegin(1, c, l, p) /\ InRange(c, l, p)
    \/ MoveCardShiftWithin(1)
    \/ MoveCardShiftOld(1)
    \/ MoveCardShiftNew(1)
    \/ MoveCardSave(1)
    \/ MoveCardWriteFails(1)
    \/ MoveCardFailed(1)
    \/ MoveCardRetry(1)

SpecRetry == InitConc /\ [][NextRetry]_vars

\* ----------------------------------------------------------------- claims
CountCards0(listId) == Cardinality(ActiveCards(cards0, listId))
CountLists0(boardId) == Cardinality(ActiveLists(lists0, boardId))

\* I1 for every live parent of the store
I1 ==
    /\ \A l \in DOMAIN lists : DenseCards(cards, l)
    /\ \A b \in BoardIds : DenseLists(lists, b)

\* C1: after every request of a sequence of inserts, moves and deletes run one
\* at a time from an empty store, the positions of the non-archived items of
\* every parent are exactly 0..n-1.
C1_DenseAfterEveryRequest == I1

\* position a sibling formerly at pos0 must hold after the item at p moved to q
MovedWithin(pos0, p, q) ==
    IF q > p /\ pos0 > p /\ pos0 <= q THEN pos0 - 1
    ELSE IF q < p /\ pos0 >= q /\ pos0 < p THEN pos0 + 1
    ELSE pos0

\* a card was moved inside its densely numbered list to another position q < n
C6_CardCase ==
    /\ call.op = "moveCard" /\ last.status = 200
    /\ call.id \in DOMAIN cards0
    /\ cards0[call.id].listId = call.listId
    /\ DenseCards(cards0, call.listId)
    /\ call.position < CountCards0(call.listId)
    /\ call.position # cards0[call.id].position

\* a non-archived list was moved inside its densely numbered board to q < n
C6_ListCase ==
    /\ call.op = "reorderList" /\ last.status = 200
    /\ call.id \in DOMAIN lists0
    /\ ~lists0[call.id].archived
    /\ DenseLists(lists0, lists0[call.id].boardId)
    /\ call.position < CountLists0(lists0[call.id].boardId)
    /\ call.position # lists0[call.id].position

\* C6: a move within the parent from p to q (0 <= q < n, q # p) puts the item
\* at q, shifts the siblings formerly in (p, q] down by one (q > p) or those
\* formerly in [q, p) up by one (q < p), and leaves every other sibling alone.
C6_MoveWithinParent ==
    /\ C6_CardCase =>
        /\ cards[call.id].listId = call.listId
        /\ cards[call.id].position = call.position
        /\ \A c \in ActiveCards(cards0, call.listId) \ {call.id} :
            /\ c \in DOMAIN cards
            /\ cards[c].listId = call.listId
            /\ cards[c].position = MovedWithin(cards0[c].position,
                                        cards0[call.id].position, call.position)
    /\ C6_ListCase =>
        /\ lists[call.id].position = call.position
        /\ \A l \in ActiveLists(lists0, lists0[call.id].boardId) \ {call.id} :
            /\ l \in DOMAIN lists
            /\ lists[l].position = MovedWithin(lists0[l].position,
                                        lists0[call.id].position, call.position)

\* the scenario [a0, a1, a2, a3], move a0 to 2
C6_Witness ==
    /\ C6_CardCase
    /\ call.id = 1 /\ call.listId = 1 /\ call.position = 2
    /\ \A c \in 1..4 : c \in DOMAIN cards0 /\ cards0[c].listId = 1
                       /\ cards0[c].position = c - 1
    /\ cards[1].position = 2

\* a card was moved from its dense list A to a dense list B at t <= count(B)
C7_Case ==
    /\ call.op = "moveCard" /\ last.status = 200
    /\ call.id \in DOMAIN cards0
    /\ cards0[call.id].listId # call.listId
    /\ DenseCards(cards0, cards0[call.id].listId)
    /\ DenseCards(cards0, call.listId)
    /\ call.position <= CountCards0(call.listId)

\* C7: a move across parents closes the gap in A (items after p move down by
\* one), opens a slot in B (items at t or later move up by one), puts the item
\* in B at t, and leaves both parents densely numbered.
C7_MoveAcrossParents ==
    C7_Case =>
        LET A == cards0[call.id].listId
            B == call.listId
            p == cards0[call.id].position
            t == call.position
        IN  /\ cards[call.id].listId = B
            /\ cards[call.id].position = t
            /\ \A c \in ActiveCards(cards0, A) \ {call.id} :
                /\ c \in DOMAIN cards
                /\ cards[c].listId = A
                /\ cards[c].position = IF cards0[c].position > p
                                       THEN cards0[c].position - 1
                                       ELSE cards0[c].position
            /\ \A c \in ActiveCards(cards0, B) :
                /\ c \in DOMAIN cards
                /\ cards[c].listId = B
                /\ cards[c].position = IF cards0[c].position >= t
                                       THEN cards0[c].position + 1
                                       ELSE cards0[c].position
            /\ DenseCards(cards, A)
            /\ DenseCards(cards, B)

\* the scenario A = [a0, a1], B = [b0], move a0 to B at 0
C7_Witness ==
    /\ C7_Case
    /\ call.id = 1 /\ call.listId = 2 /\ call.position = 0
    /\ DOMAIN cards0 = 1..3
    /\ cards0[1].listId = 1 /\ cards0[1].position = 0
    /\ cards0[2].listId = 1 /\ cards0[2].position = 1
    /\ cards0[3].listId = 2 /\ cards0[3].position = 0
    /\ cards[3].position = 1

\* a card was deleted from its densely numbered list
C8_CardCase ==
    /\ call.op = "deleteCard" /\ last.status = 200
    /\ call.id \in DOMAIN cards0
    /\ DenseCards(cards0, cards0[call.id].listId)

\* a non-archived list was deleted from its densely numbered board
C8_ListCase ==
    /\ call.op = "deleteList" /\ last.status = 200
    /\ call.id \in DOMAIN lists0
    /\ ~lists0[call.id].archived
    /\ DenseLists(lists0, lists0[call.id].boardId)

\* C8: deleting the item at k of n densely numbered items leaves n-1 items
\* numbered 0..n-2: those formerly after k moved down by one, those before k
\* are unchanged.
C8_DeleteCompacts ==
    /\ C8_CardCase =>
        LET A == cards0[call.id].listId
            k == cards0[call.id].position
        IN  /\ call.id \notin DOMAIN cards
            /\ Cardinality(ActiveCards(cards, A)) = CountCards0(A) - 1
            /\ DenseCards(cards, A)
            /\ \A c \in ActiveCards(cards0, A) \ {call.id} :
                /\ c \in DOMAIN cards
                /\ cards[c].listId = A
                /\ cards[c].position = IF cards0[c].position > k
                                       THEN cards0[c].position - 1
                                       ELSE cards0[c].position
    /\ C8_ListCase =>
        LET b == lists0[call.id].boardId
            k == lists0[call.id].position
        IN  /\ call.id \notin DOMAIN lists
            /\ Cardinality(ActiveLists(lists, b)) = CountLists0(b) - 1
            /\ DenseLists(lists, b)
            /\ \A l \in ActiveLists(lists0, b) \ {call.id} :
                /\ l \in DOMAIN lists
                /\ lists[l].position = IF lists0[l].position > k
                                       THEN lists0[l].position - 1
                                       ELSE lists0[l].position

\* the scenario [a0, a1, a2], delete a1
C8_Witness ==
    /\ C8_CardCase
    /\ call.id = 2
    /\ DOMAIN cards0 = 1..3
    /\ \A c \in 1..3 : cards0[c].listId = 1 /\ cards0[c].position = c - 1
    /\ cards[3].position = 1

\* C9: an insert gives the new item the number of non-archived items its
\* parent held before the insert and changes no existing item.
C9_InsertAtSiblingCount ==
    /\ (call.op = "createCard" /\ last.status = 201) =>
        /\ cards[call.id].position = CountCards0(call.listId)
        /\ \A c \in DOMAIN cards0 : c \in DOMAIN cards /\ cards[c] = cards0[c]
    /\ (call.op = "createList" /\ last.status = 201) =>
        /\ lists[call.id].position = CountLists0(lists[call.id].boardId)
        /\ \A l \in DOMAIN lists0 : l \in DOMAIN lists /\ lists[l] = lists0[l]

\* a move request names a position past the end of the destination
C10_OutOfRange ==
    \/ /\ call.op = "moveCard"
       /\ call.id \in DOMAIN cards0
       /\ \/ /\ cards0[call.id].listId = call.listId
             /\ call.position >= CountCards0(call.listId)
          \/ /\ cards0[call.id].listId # call.listId
             /\ call.position > CountCards0(call.listId)
    \/ /\ call.op = "reorderList"
       /\ call.id \in DOMAIN lists0
       /\ call.position >= CountLists0(lists0[call.id].boardId)

\* C10: a move to a position past the end (>= count inside the parent, > count
\* across parents) is answered with an error and writes nothing.
C10_OutOfRangeRejected ==
    C10_OutOfRange => /\ last.status >= 400
                      /\ cards = cards0
                      /\ lists = lists0

\* the lists a request of connection k reads or writes
Touched(k) ==
    {reqs[k].oldListId, reqs[k].listId} \ {0}

BothDone == \A k \in Conns : reqs[k].pc = "done"

\* connection k made a move of a card of list l inside l, and it succeeded
MovedInside(k, l) ==
    /\ reqs[k].op = "moveCard"
    /\ reqs[k].status = 200
    /\ reqs[k].oldListId = l
    /\ reqs[k].listId = l

\* C2: two concurrent moves inside one list, of two different cards to two
\* different positions, leave that list's positions exactly {0, ..., n-1} once
\* both have completed, whatever the interleaving of their reads and writes.
C2_ConcurrentMovesKeepDense ==
    \A l \in ParentIds :
        (/\ BothDone
         /\ MovedInside(1, l) /\ MovedInside(2, l)
         /\ reqs[1].id # reqs[2].id
         /\ reqs[1].position # reqs[2].position)
        => DenseCards(cards, l)

\* the store after the request of connection k alone, run to completion on cs
RunReq(cs, k) ==
    CASE reqs[k].op = "moveCard" ->
            moveCard(cs, lists, reqs[k].id, reqs[k].listId, reqs[k].position,
                     "member").cards
      [] reqs[k].op = "deleteCard" ->
            deleteCard(cs, lists, reqs[k].id, "member").cards
      [] reqs[k].op = "createCard" ->
            createCard(cs, lists, reqs[k].id, reqs[k].listId, 1, "member").cards
      [] OTHER -> cs

\* C3: two concurrent card requests that touch a common list end in the state
\* of one of their two serial orders.
C3_Serializable ==
    (BothDone /\ Touched(1) \cap Touched(2) # {})
        => \/ cards = RunReq(RunReq(cards0, 1), 2)
           \/ cards = RunReq(RunReq(cards0, 2), 1)

\* C4: while one request is between its first and its last write, a request
\* that starts on the other connection reads positions without a duplicate
\* and without a gap.
C4_NoPartialStateVisible ==
    (\E k \in Conns :
        /\ reqs[k].pc \notin {"idle", "done"}
        /\ \A j \in Conns \ {k} : reqs[j].pc = "idle")
        => I1

\* C5: a move that fails at one of its writes leaves every list dense, with
\* all of its writes applied or none.
C5_FailedMoveLeavesDense ==
    (reqs[1].pc = "done" /\ reqs[1].status = 500)
        => /\ I1
           /\ cards \in {cards0, RunReq(cards0, 1)}

\* I2: the list of every card belongs to the card's board
I2 ==
    \A c \in DOMAIN cards :
        cards[c].listId \in DOMAIN lists
            => lists[cards[c].listId].boardId = cards[c].boardId

\* C11: after any card insert or move, every card's listId names a list whose
\* boardId is the card's own boardId.
C11_ListOfCardInCardsBoard == I2

\* a card was asked to move to an existing list of another board
C12_Case ==
    /\ call.op = "moveCard"
    /\ call.id \in DOMAIN cards0
    /\ call.listId \in DOMAIN lists0
    /\ call.listId # cards0[call.id].listId
    /\ lists0[call.listId].boardId # cards0[call.id].boardId

\* C12: a move to a list of another board than the card's is answered with an
\* error, and no card of the source list, of the destination list, nor the
\* moved card is changed.
C12_CrossBoardMoveRejected ==
    C12_Case => /\ last.status >= 400
                /\ cards = cards0
                /\ lists = lists0

\* card 1 of list 1 (board 1), with a sibling behind it, sent to list 3 (board 2)
\* which holds a card
C12_Witness ==
    /\ C12_Case
    /\ last.status = 400
    /\ call.id = 1 /\ call.listId = 3 /\ call.position = 0
    /\ cards0[1].listId = 1 /\ cards0[1].position = 0
    /\ countCards(cards0, 1) = 2
    /\ countCards(cards0, 3) = 1

\* the request named a card, or a list, that the store did not hold
C13_MissingItem ==
    \/ call.op \in {"moveCard", "deleteCard"} /\ call.id \notin DOMAIN cards0
    \/ call.op \in {"reorderList", "deleteList", "archiveList"}
            /\ call.id \notin DOMAIN lists0
C13_MissingParent ==
    \/ /\ call.op = "moveCard"
       /\ call.id \in DOMAIN cards0
       /\ call.listId # cards0[call.id].listId
       /\ call.listId \notin DOMAIN lists0
    \/ call.op = "createCard" /\ call.listId \notin DOMAIN lists0

\* C13: a request that names a card or a list that does not exist is answered
\* with an error and writes nothing; a card insert whose listId names no list
\* is such a request.
C13_NotFoundRejected ==
    (C13_MissingItem \/ C13_MissingParent)
        => /\ last.status >= 400
           /\ cards = cards0
           /\ lists = lists0

\* C14: every stored card's listId names a list that exists: no card outlives
\* its list and none is created into a missing one.
C14_ListOfCardExists ==
    \A c \in DOMAIN cards : cards[c].listId \in DOMAIN lists

C16_Case ==
    /\ call.op = "moveCard"
    /\ last.status # 403
    /\ call.id \in DOMAIN cards0
    /\ call.listId \in DOMAIN lists0
    /\ call.listId # cards0[call.id].listId
    /\ lists0[call.listId].boardId = cards0[call.id].boardId

\* the destination has a cardLimit and already holds that many cards or more
C16_Full ==
    /\ lists0[call.listId].cardLimit # NoLimit
    /\ CountCards0(call.listId) >= lists0[call.listId].cardLimit

\* C16: a cross-list move is rejected, with no card written, exactly when the
\* destination has a cardLimit L and holds L or more non-archived cards before
\* the move; a move that brings the count to exactly L is accepted.
C16_LimitOnPostMoveCount ==
    C16_Case =>
        IF C16_Full
        THEN last.status = 400 /\ cards = cards0
        ELSE /\ last.status = 200
             /\ cards[call.id].listId = call.listId
             /\ countActiveCards(cards, call.listId) = CountCards0(call.listId) + 1

\* list 2 has cardLimit 2 and holds cards 2 and 3; card 1 of list 1 is sent to it
C16_Witness ==
    /\ C16_Case /\ C16_Full
    /\ call.id = 1 /\ call.listId = 2
    /\ lists0[2].cardLimit = 2
    /\ CountCards0(2) = 2
    /\ cards0[1].listId = 1

\* list l has a cardLimit and held no more cards than it before the request
C17_WithinLimitBefore(l) ==
    /\ lists0[l].cardLimit # NoLimit
    /\ CountCards0(l) <= lists0[l].cardLimit

\* C17: a list that holds at most cardLimit non-archived cards still does
\* after a card insert or a cross-list move.
C17_LimitKept ==
    call.op \in {"createCard", "moveCard"} =>
        \A l \in DOMAIN lists0 :
            C17_WithinLimitBefore(l)
                => countActiveCards(cards, l) <= lists0[l].cardLimit

\* a card was sent to the position it holds in its own list
C18_CardCase ==
    /\ call.op = "moveCard" /\ last.status = 200
    /\ call.id \in DOMAIN cards0
    /\ call.listId = cards0[call.id].listId
    /\ call.position = cards0[call.id].position

\* a list was sent to the position it holds in its board
C18_ListCase ==
    /\ call.op = "reorderList" /\ last.status = 200
    /\ call.id \in DOMAIN lists0
    /\ call.position = lists0[call.id].position

\* C18: moving an item to the position it already holds in its own parent
\* writes nothing: the item and every sibling keep their positions.
C18_NoopMoveWritesNothing ==
    /\ C18_CardCase => cards = cards0
    /\ C18_ListCase => lists = lists0

\* card 2, second of the three cards of list 1, sent to position 1 of list 1
C18_Witness ==
    /\ C18_CardCase
    /\ call.id = 2 /\ call.listId = 1 /\ call.position = 1
    /\ CountCards0(1) = 3

\* a card of a densely numbered list was moved from p to q < n inside the
\* list (q # p) and then moved back to p
C19_CardCase ==
    /\ call.op = "moveToListBack"
    /\ call.listId = cards0[call.id].listId
    /\ DenseCards(cards0, call.listId)
    /\ call.position >= 0
    /\ call.position < CountCards0(call.listId)
    /\ call.position # cards0[call.id].position

\* the same for a non-archived list of a densely numbered board
C19_ListCase ==
    /\ call.op = "moveToPositionBack"
    /\ ~lists0[call.id].archived
    /\ DenseLists(lists0, lists0[call.id].boardId)
    /\ call.position < CountLists0(lists0[call.id].boardId)
    /\ call.position # lists0[call.id].position

\* C19: moving the item at p to q and then back to p restores the position of
\* every sibling as well as of the item.
C19_MoveThereAndBack ==
    /\ C19_CardCase => cards = cards0
    /\ C19_ListCase => lists = lists0

\* [a0, a1, a2, a3]: card 1 moved from 0 to 2 and back
C19_Witness ==
    /\ C19_CardCase
    /\ call.id = 1 /\ call.listId = 1 /\ call.position = 2
    /\ cards0[1].position = 0
    /\ CountCards0(1) = 4

\* a card was moved to another list with no position given
C20_Case ==
    /\ call.op = "moveToList"
    /\ call.position = NullPosition
    /\ call.listId # cards0[call.id].listId

\* C20: a move to another parent with no target position puts the item at the
\* destination's sibling count as it was before the item came, and shifts no
\* item of the destination.
C20_NullPositionAppends ==
    C20_Case =>
        /\ cards[call.id].listId = call.listId
        /\ cards[call.id].position = CountCards0(call.listId)
        /\ \A c \in DOMAIN cards0 :
                cards0[c].listId = call.listId => cards[c] = cards0[c]

\* card 1, first of the two cards of list 1, moved to list 2, which holds two
C20_Witness ==
    /\ C20_Case
    /\ call.id = 1 /\ call.listId = 2
    /\ cards0[1].position = 0
    /\ CountCards0(1) = 2
    /\ CountCards0(2) = 2
    /\ cards[1].position = 2

\* a card of a densely numbered list was moved to another list
C21_Case ==
    /\ call.op = "moveCard" /\ last.status = 200
    /\ call.id \in DOMAIN cards0
    /\ cards0[call.id].listId # call.listId
    /\ DenseCards(cards0, cards0[call.id].listId)

\* C21: after a move across parents the old parent has lost exactly one item
\* and the new parent has gained exactly one, so the sum of their counts is
\* what it was, and the old parent's remaining items are numbered 0..n-1.
C21_CrossParentConservation ==
    C21_Case =>
        LET A == cards0[call.id].listId
            B == call.listId
        IN  /\ countActiveCards(cards, A) = CountCards0(A) - 1
            /\ countActiveCards(cards, B) = CountCards0(B) + 1
            /\ countActiveCards(cards, A) + countActiveCards(cards, B)
                    = CountCards0(A) + CountCards0(B)
            /\ DenseCards(cards, A)

\* card 2, second of the three cards of list 1, moved to the head of list 2,
\* which holds one card
C21_Witness ==
    /\ C21_Case
    /\ call.id = 2 /\ call.listId = 2 /\ call.position = 0
    /\ cards0[2].listId = 1 /\ cards0[2].position = 1
    /\ CountCards0(1) = 3
    /\ CountCards0(2) = 1

\* both connections inserted a card into list l
C22_Case(l) ==
    /\ BothDone
    /\ \A k \in Conns : /\ reqs[k].op = "createCard"
                        /\ reqs[k].status = 201
                        /\ reqs[k].listId = l

\* C22: two concurrent inserts into a parent that holds n items give the two
\* new items different positions, n and n + 1.
C22_ConcurrentInsertsDiffer ==
    \A l \in ParentIds :
        C22_Case(l) =>
            {cards[reqs[k].id].position : k \in Conns}
                = {countCards(cards0, l), countCards(cards0, l) + 1}

\* a list insert, move or delete was carried out
C23_Case ==
    /\ call.op \in {"createList", "reorderList", "deleteList"}
    /\ last.status \in {200, 201}

\* C23: an insert, move or delete on a board changes the position of no
\* archived list of that board (other than the list moved itself): the range
\* shifts skip archived siblings.
C23_ArchivedKeepPosition ==
    C23_Case =>
        \A l \in (DOMAIN lists0 \cap DOMAIN lists) \ {call.id} :
            lists0[l].archived => lists[l].position = lists0[l].position

\* a list of a board whose non-archived lists were densely numbered was
\* archived or un-archived
C24_Case ==
    /\ call.op = "archiveList" /\ last.status = 200
    /\ call.id \in DOMAIN lists0
    /\ DenseLists(lists0, lists0[call.id].boardId)

\* C24: archiving a list leaves no gap among the board's remaining
\* non-archived lists and un-archiving one creates no duplicate: their
\* positions are exactly 0..n-1 after the request as before it.
C24_ArchiveKeepsDense ==
    C24_Case => DenseLists(lists, lists0[call.id].boardId)

InFlight(k) == reqs[k].pc \notin {"idle", "done"}

C26_RetryAsOneRun ==
    (call.op = "moveCard" /\ reqs[1].pc = "done" /\ reqs[1].status = 200)
        => cards = RunReq(cards0, 1)

\* a position-affecting request was answered with success
C27_Case ==
    /\ call.op \in {"createCard", "moveCard", "deleteCard",
                    "createList", "reorderList", "deleteList"}
    /\ last.status \in {200, 201}

\* C27: every successful card insert, move or delete and every successful
\* list insert, reorder or delete delivers exactly one notification, about the
\* item of the request, to the socket room.
C27_OneNotificationPerMutation ==
    C27_Case => /\ Len(sink) = 1
                /\ sink[1].itemId = call.id

\* the requests that have been answered with success
Succeeded == {k \in Conns : reqs[k].pc = "done" /\ reqs[k].status \in {200, 201}}

C29_Case ==
    /\ call.op = "moveCard"
    /\ last.status = 200
    /\ call.id \in DOMAIN cards0
    /\ call.id \in DOMAIN cards
    /\ Len(sink) = 1

\* C29: the notification of a successful card move carries the card's id, the
\* list and position stored for it immediately before the move, and the list
\* and position stored for it immediately after.
C29_MoveDescriptor ==
    C29_Case => /\ sink[1].itemId = call.id
                /\ sink[1].oldParentId = cards0[call.id].listId
                /\ sink[1].oldPosition = cards0[call.id].position
                /\ sink[1].newParentId = cards[call.id].listId
                /\ sink[1].newPosition = cards[call.id].position

\* the lists a card request touches: the list named in the request and the
\* list the card was in
C30_Touched ==
    IF call.op = "createCard" THEN {call.listId}
    ELSE IF call.op = "moveCard" THEN {cards0[call.id].listId, call.listId}
    ELSE {cards0[call.id].listId}

C30_Case ==
    /\ call.op \in {"createCard", "moveCard", "deleteCard"}
    /\ cards # cards0

\* C30: a card insert, move or delete changes the store only if the user is
\* the owner or a member of the board of every list the request touches.
C30_OnlyBoardMembersChange ==
    C30_Case => \A l \in C30_Touched \cap DOMAIN lists :
                    lists[l].boardId \in UserBoards

\* the deleteBoard requests answered with success
C31_Case(k) ==
    /\ reqs[k].op = "deleteBoard"
    /\ reqs[k].pc = "done"
    /\ reqs[k].status = 200

\* C31: once deleteBoard has completed, the store holds no list and no card
\* whose boardId is the deleted board.
C31_BoardCascade ==
    \A k \in Conns :
        C31_Case(k) =>
            /\ \A l \in DOMAIN lists : lists[l].boardId # reqs[k].id
            /\ \A c \in DOMAIN cards : cards[c].boardId # reqs[k].id

\* C35: deleteList removes a list only when the list holds no non-archived
\* card: at the step where list.deleteOne() runs (its pre hook removes the
\* list's cards), no non-archived card is in the list.
C35_ListRemovedOnlyWhenEmpty ==
    [][\A k \in Conns :
            (reqs[k].pc = "cascade" /\ reqs'[k].pc = "removeList")
                => countActiveCards(cards, reqs[k].id) = 0]_vars

\* a header of the form 'Bearer <token>' whose token verifies at time t and
\* names an existing user
C32_Bearer(h, t) ==
    /\ h.present
    /\ h.prefix = "Bearer "
    /\ h.token.form = "jwt"
    /\ h.token.key = "JWT_SECRET"
    /\ h.token.exp > t
    /\ h.token.id \in DOMAIN users

\* C32: the handler of a protected route runs only for a request whose
\* Authorization header is 'Bearer <token>' with a token that verifies and
\* whose user exists; every other request is answered 401 and changes nothing.
C32_OnlyBearerReachesHandler ==
    /\ call.op # "none" => exchange.op = "auth" /\ C32_Bearer(exchange.header, now)
    /\ (exchange.op = "auth" /\ ~C32_Bearer(exchange.header, now)) =>
            /\ exchange.status = 401
            /\ last = Response("auth", 401)
            /\ call = NoCall
            /\ cards = cards0
            /\ lists = lists0
            /\ sink = <<>>

\* a token of an existing user, rightly signed, that has expired
C32_Witness ==
    /\ exchange.op = "auth"
    /\ exchange.status = 401
    /\ exchange.header.prefix = "Bearer "
    /\ exchange.header.token.form = "jwt"
    /\ exchange.header.token.key = "JWT_SECRET"
    /\ exchange.header.token.id \in DOMAIN users
    /\ exchange.header.token.exp <= now

\* a login that has been answered
LoginDone == exchange.op = "login" /\ exchange.pc = "done"

\* the password sent matches the stored one of an existing, active account
\* that is not locked when the login arrives
C33_Entitled ==
    /\ exchange.email \in DOMAIN users
    /\ exchange.before.isActive
    /\ ~(exchange.before.lockUntil # NoDate /\ exchange.before.lockUntil > exchange.at)
    /\ exchange.before.password = hash(exchange.password)

C39_Checked ==
    /\ LoginDone
    /\ exchange.email \in DOMAIN users
    /\ exchange.before.isActive
    /\ ~(exchange.before.lockUntil # NoDate /\ exchange.before.lockUntil > exchange.at)

\* the login answered last set the lock of its account
C39_LockSet ==
    /\ LoginDone
    /\ exchange.email \in DOMAIN users
    /\ users[exchange.email].lockUntil # NoDate
    /\ users[exchange.email].lockUntil # exchange.before.lockUntil

\* C39: with logins processed one at a time, the lock of an account is set
\* by the 5th failed password check since the last successful login or since
\* the last lock expired, and by no other login; a successful login sets the
\* failure counter to 0 and clears the lock.
C39_LockAtFifthFailure ==
    /\ C39_LockSet <=> /\ C39_Checked
                       /\ exchange.status = 401
                       /\ exchange.failures[exchange.email] = 5
    /\ (LoginDone /\ exchange.status = 200) =>
            /\ users[exchange.email].loginAttempts = 0
            /\ users[exchange.email].lockUntil = NoDate

\* the first failed check after a lock has expired: the count restarts at 1
\* and the account is not locked again
C39_Witness ==
    /\ C39_Checked
    /\ exchange.status = 401
    /\ exchange.before.lockUntil # NoDate
    /\ exchange.failures[exchange.email] = 1
    /\ users[exchange.email].loginAttempts = 1
    /\ users[exchange.email].lockUntil = NoDate

\* a delete of a card or of a list answered with success
C34_Case ==
    /\ reqs[1].op \in {"deleteCard", "deleteList"}
    /\ reqs[1].pc = "done"
    /\ reqs[1].status = 200

\* C34: a delete is answered with success only if the remaining non-archived
\* items of the parent it deleted from are numbered 0..n-1 without a gap, also
\* when the compaction write fails.
C34_SuccessMeansCompacted ==
    C34_Case =>
        IF reqs[1].op = "deleteCard"
        THEN DenseCards(cards, reqs[1].oldListId)
        ELSE DenseLists(lists, reqs[1].oldListId)

\* the most recent successful join-board of socket s was for board b and the
\* socket has not sent leave-board for b since
C36_Joined(s, b) == sockets[s].lastJoin = b /\ ~sockets[s].leftSince

C36_Case == exchange.op \in {"move-card", "reorder-lists"}

\* C36: a socket's move-card or reorder-lists event for board b is relayed
\* to the room of b only if the socket's most recent successful join-board
\* was for b and it has not left b since; otherwise nothing is relayed and
\* the sender gets an error event.
C36_RelayOnlyFromCurrentBoard ==
    C36_Case =>
        LET s == exchange.socket
            b == exchange.board
            event == IF exchange.op = "move-card" THEN "card-moved"
                     ELSE "lists-reordered"
        IN  IF C36_Joined(s, b)
            THEN relay = <<ToRoom(event, b, s)>>
            ELSE relay = <<ToSender("error", b, s)>>

\* the socket is still in the room of the board, which it joined before it
\* joined another one: its event for the board is refused
C36_Witness ==
    /\ C36_Case
    /\ exchange.wasIn
    /\ sockets[exchange.socket].currentBoard # NoBoard
    /\ relay = <<ToSender("error", exchange.board, exchange.socket)>>

\* C37: every socket in the room of a board belongs to a user who is at that
\* moment the owner or a member of the board.
C37_RoomsHoldMembersOnly ==
    \A s \in SocketIds : \A b \in sockets[s].rooms :
        boardAccess(boards, b, sockets[s].user) = "member"

\* C38: 'user-left' is sent to the room of a board only for a socket that had
\* joined the board and had not left it.
C38_UserLeftOnlyAfterJoin ==
    \A i \in 1..Len(relay) :
        (relay[i].event = "user-left" /\ relay[i].target = "room") => exchange.wasIn

====
